---- MODULE Spec2Model ----
(***************************************************************************)
(* The compiler pipeline of new-edu-main: tokenize -> parse -> analyze ->  *)
(* generate -> optimize -> assembly.  Text is a sequence of one-character  *)
(* strings, and so is the assembly, its lines joined by "\n"; a token is a *)
(* record [type, value] whose value is such a sequence; a tree node is a   *)
(* record with a type field.  JavaScript's null is the node Null, and an   *)
(* object without a type field (the parser's { error: ... } objects) has   *)
(* type "undefined".  Beside the pipeline stand the scoped analyzer, which *)
(* no later stage reads, and further calls of generate and of optimize on  *)
(* the instance that made ir and opt.                                      *)
(***************************************************************************)
EXTENDS Integers, Sequences, FiniteSets, TLC

VARIABLES src, tokens, ast, sem, scoped, ir, optIn, opt, asm, pc

vars == <<src, tokens, ast, sem, scoped, ir, optIn, opt, asm, pc>>

(***************************************************************************)
(* Characters and character classes of the regular expressions.            *)
(***************************************************************************)
Lower == {"a","b","c","d","e","f","g","h","i","j","k","l","m",
          "n","o","p","q","r","s","t","u","v","w","x","y","z"}
Upper == {"A","B","C","D","E","F","G","H","I","J","K","L","M",
          "N","O","P","Q","R","S","T","U","V","W","X","Y","Z"}
Digit == {"0","1","2","3","4","5","6","7","8","9"}
HexDigit == Digit \cup {"a","b","c","d","e","f","A","B","C","D","E","F"}
WordChar == Lower \cup Upper \cup Digit \cup {"_"}
IdentStart == Lower \cup Upper \cup {"_"}
WhiteSpace == {" ", "\n", "\t", "\r"}
OperatorChar == {"-","+","*","/","%","=","<",">","&","^","|","!","~"}
TwoCharOperator == { <<"=","=">>, <<"!","=">>, <<"<","=">>, <<">","=">>,
                     <<"+","+">>, <<"-","-">>, <<"-",">">>, <<"&","&">>,
                     <<"|","|">> }
SeparatorChar == {";", ",", ".", ":"}

Keywords == { <<"i","n","t">>, <<"c","h","a","r">>, <<"f","l","o","a","t">>,
              <<"d","o","u","b","l","e">>, <<"i","f">>, <<"e","l","s","e">>,
              <<"f","o","r">>, <<"w","h","i","l","e">>,
              <<"r","e","t","u","r","n">>, <<"v","o","i","d">>,
              <<"i","n","c","l","u","d","e">>, <<"d","e","f","i","n","e">> }

Tok(t, v) == [type |-> t, value |-> v]

AllIn(s, a, b, S) == \A k \in a..b : s[k] \in S

(***************************************************************************)
(* classifyLexeme, for a lexeme that is a run of word characters: the      *)
(* patterns are tried in the order of the tokenRegex table and the first   *)
(* that matches decides.  \b...\b on a run of word characters matches the  *)
(* whole run or nothing; the patterns anchored at a non-word character     *)
(* (PREPROCESSOR, STRING_LITERAL, OPERATOR, ...) never match such a run.   *)
(***************************************************************************)
IsHexNumeral(l) ==
    /\ Len(l) >= 3
    /\ l[1] = "0"
    /\ l[2] = "x"
    /\ AllIn(l, 3, Len(l), HexDigit)

IsDecNumeral(l) ==
    \/ /\ Len(l) >= 1
       /\ AllIn(l, 1, Len(l), Digit)
    \/ \E e \in 2..(Len(l) - 1) :
          /\ l[e] \in {"e", "E"}
          /\ AllIn(l, 1, e - 1, Digit)
          /\ AllIn(l, e + 1, Len(l), Digit)

classifyLexeme(lexeme) ==
    IF lexeme \in Keywords THEN Tok("KEYWORD", lexeme)
    ELSE IF lexeme[1] \in IdentStart THEN Tok("IDENTIFIER", lexeme)
    ELSE IF IsHexNumeral(lexeme) \/ IsDecNumeral(lexeme) THEN Tok("NUMBER", lexeme)
    ELSE Tok("UNDEFINED", lexeme)

(***************************************************************************)
(* Concatenation of the sequences ss[lo..hi].                              *)
(***************************************************************************)
RECURSIVE Concat(_, _, _)
Concat(ss, lo, hi) ==
    IF lo > hi THEN << >>
    ELSE IF lo = hi THEN ss[lo]
    ELSE LET mid == (lo + hi) \div 2
         IN  Concat(ss, lo, mid) \o Concat(ss, mid + 1, hi)

Min(S) == CHOOSE x \in S : \A y \in S : x <= y

(***************************************************************************)
(* tokenize, first step: every terminated block comment, found from left   *)
(* to right by the pattern /\*[\s\S]*?\*/ (the shortest text from a slash  *)
(* and star to the next star and slash after them), becomes a COMMENT      *)
(* token and is replaced in the text by blanks of the same length.         *)
(***************************************************************************)
CommentEnds(s, i) ==
    { j \in (i + 2)..(Len(s) - 1) : s[j] = "*" /\ s[j + 1] = "/" }

CommentStarts(s, from) ==
    { i \in from..(Len(s) - 1) :
         s[i] = "/" /\ s[i + 1] = "*" /\ CommentEnds(s, i) # {} }

(* The matches of the pattern at or after from: first and last index.      *)
RECURSIVE CommentSpans(_, _)
CommentSpans(s, from) ==
    LET starts == CommentStarts(s, from)
    IN  IF starts = {} THEN << >>
        ELSE LET i == Min(starts)
                 j == Min(CommentEnds(s, i))
             IN  << [first |-> i, last |-> j + 1] >> \o CommentSpans(s, j + 2)

replaceBlockComments(s) ==
    LET spans == CommentSpans(s, 1)
    IN  [text   |-> [k \in 1..Len(s) |->
                       IF \E n \in DOMAIN spans :
                             spans[n].first <= k /\ k <= spans[n].last
                       THEN " " ELSE s[k]],
         tokens |-> [n \in DOMAIN spans |->
                       Tok("COMMENT", SubSeq(s, spans[n].first, spans[n].last))]]

(* inputCode.split('\n') on s[lo..hi]: the pieces between the newlines,    *)
(* found by splitting at a newline near the middle.                        *)
RECURSIVE splitRange(_, _, _)
splitRange(s, lo, hi) ==
    LET mid   == (lo + hi) \div 2
        right == { j \in mid..hi : s[j] = "\n" }
        left  == { j \in lo..(mid - 1) : s[j] = "\n" }
    IN  IF lo > hi THEN << << >> >>
        ELSE IF right # {}
        THEN LET j == CHOOSE j \in right : \A k \in mid..(j - 1) : s[k] # "\n"
             IN  splitRange(s, lo, j - 1) \o splitRange(s, j + 1, hi)
        ELSE IF left # {}
        THEN LET j == CHOOSE j \in left : \A k \in (j + 1)..(mid - 1) : s[k] # "\n"
             IN  splitRange(s, lo, j - 1) \o splitRange(s, j + 1, hi)
        ELSE << SubSeq(s, lo, hi) >>

splitLines(s) == splitRange(s, 1, Len(s))

RECURSIVE trimStart(_)
trimStart(s) ==
    IF s # << >> /\ Head(s) \in WhiteSpace THEN trimStart(Tail(s)) ELSE s

RECURSIVE trimEnd(_)
trimEnd(s) ==
    IF s # << >> /\ s[Len(s)] \in WhiteSpace
    THEN trimEnd(SubSeq(s, 1, Len(s) - 1)) ELSE s

trim(s) == trimEnd(trimStart(s))

IsPreprocessorLine(line) ==
    LET t == trimStart(line) IN t # << >> /\ Head(t) = "#"

(***************************************************************************)
(* The string-literal pattern ^"([^"\\]|\\.)*" at position i of a line:    *)
(* the index of the closing quote, or 0 when the pattern does not match.   *)
(***************************************************************************)
RECURSIVE StringEnd(_, _)
StringEnd(line, j) ==
    IF j > Len(line) THEN 0
    ELSE IF line[j] = "\"" THEN j
    ELSE IF line[j] = "\\"
         THEN IF j + 1 > Len(line) THEN 0 ELSE StringEnd(line, j + 2)
    ELSE StringEnd(line, j + 1)

RECURSIVE WordEnd(_, _)
WordEnd(line, j) ==
    IF j <= Len(line) /\ line[j] \in WordChar THEN WordEnd(line, j + 1) ELSE j

(* scanToken with the operator token holding the first character only.   *)
scanTokenDropping(line, i) ==
    LET twoChar == SubSeq(line, i, IF i + 1 <= Len(line) THEN i + 1 ELSE i)
        oneChar == line[i]
    IN
    IF oneChar = "/" /\ i + 1 <= Len(line) /\ line[i + 1] = "/"
    THEN [tok |-> Tok("COMMENT", SubSeq(line, i, Len(line))), next |-> Len(line) + 1]
    ELSE IF oneChar = "\""
    THEN LET e == StringEnd(line, i + 1)
         IN  IF e # 0
             THEN [tok |-> Tok("STRING_LITERAL", SubSeq(line, i, e)), next |-> e + 1]
             ELSE [tok |-> Tok("UNDEFINED", <<"\"">>), next |-> i + 1]
    ELSE IF twoChar \in TwoCharOperator \/ twoChar[1] \in OperatorChar
    THEN [tok |-> Tok("OPERATOR", <<oneChar>>), next |-> i + 2]
    ELSE IF oneChar \in SeparatorChar
    THEN [tok |-> Tok("SEPARATOR", <<oneChar>>), next |-> i + 1]
    ELSE IF oneChar = "("
    THEN [tok |-> Tok("OPEN_PAREN", <<oneChar>>), next |-> i + 1]
    ELSE IF oneChar = ")"
    THEN [tok |-> Tok("CLOSE_PAREN", <<oneChar>>), next |-> i + 1]
    ELSE IF oneChar = "{"
    THEN [tok |-> Tok("OPEN_BRACE", <<oneChar>>), next |-> i + 1]
    ELSE IF oneChar = "}"
    THEN [tok |-> Tok("CLOSE_BRACE", <<oneChar>>), next |-> i + 1]
    ELSE IF oneChar \in WordChar
    THEN LET e == WordEnd(line, i)
         IN  [tok |-> classifyLexeme(SubSeq(line, i, e - 1)), next |-> e]
    ELSE [tok |-> Tok("UNDEFINED", <<oneChar>>), next |-> i + 1]

(***************************************************************************)
(* One iteration of the scanning loop at position i <= Len(line) where the *)
(* character is not white space: the token pushed and the next position.   *)
(* The operator pattern is tested on the two-character slice and matches   *)
(* whenever that slice begins with an operator character.                  *)
(***************************************************************************)
scanToken(line, i) ==
    LET twoChar == SubSeq(line, i, IF i + 1 <= Len(line) THEN i + 1 ELSE i)
        oneChar == line[i]
    IN
    IF oneChar = "/" /\ i + 1 <= Len(line) /\ line[i + 1] = "/"
    THEN [tok |-> Tok("COMMENT", SubSeq(line, i, Len(line))), next |-> Len(line) + 1]
    ELSE IF oneChar = "\""
    THEN LET e == StringEnd(line, i + 1)
         IN  IF e # 0
             THEN [tok |-> Tok("STRING_LITERAL", SubSeq(line, i, e)), next |-> e + 1]
             ELSE [tok |-> Tok("UNDEFINED", <<"\"">>), next |-> i + 1]
    ELSE IF twoChar \in TwoCharOperator \/ twoChar[1] \in OperatorChar
    THEN [tok |-> Tok("OPERATOR", twoChar), next |-> i + 2]
    ELSE IF oneChar \in SeparatorChar
    THEN [tok |-> Tok("SEPARATOR", <<oneChar>>), next |-> i + 1]
    ELSE IF oneChar = "("
    THEN [tok |-> Tok("OPEN_PAREN", <<oneChar>>), next |-> i + 1]
    ELSE IF oneChar = ")"
    THEN [tok |-> Tok("CLOSE_PAREN", <<oneChar>>), next |-> i + 1]
    ELSE IF oneChar = "{"
    THEN [tok |-> Tok("OPEN_BRACE", <<oneChar>>), next |-> i + 1]
    ELSE IF oneChar = "}"
    THEN [tok |-> Tok("CLOSE_BRACE", <<oneChar>>), next |-> i + 1]
    ELSE IF oneChar \in WordChar
    THEN LET e == WordEnd(line, i)
         IN  [tok |-> classifyLexeme(SubSeq(line, i, e - 1)), next |-> e]
    ELSE [tok |-> Tok("UNDEFINED", <<oneChar>>), next |-> i + 1]

RECURSIVE scanLine(_, _, _)
scanLine(line, i, toks) ==
    IF i > Len(line) THEN toks
    ELSE IF line[i] \in WhiteSpace THEN scanLine(line, i + 1, toks)
    ELSE LET r == scanToken(line, i)
         IN  scanLine(line, r.next, Append(toks, r.tok))

(* The tokens one line contributes.                                        *)
lineTokens(line) ==
    IF IsPreprocessorLine(line) THEN << Tok("PREPROCESSOR", trim(line)) >>
    ELSE scanLine(line, 1, << >>)

tokenize(inputCode) ==
    LET r == replaceBlockComments(inputCode)
        lines == splitLines(r.text)
    IN  r.tokens \o Concat([n \in DOMAIN lines |-> lineTokens(lines[n])],
                           1, Len(lines))

(***************************************************************************)
(* The parser.  Every production takes the token list and the shared       *)
(* cursor (here 1-based: cur <= Len(toks) is current < tokens.length) and  *)
(* returns the node built, the cursor afterwards and the flag hung, which  *)
(* is TRUE when a loop of the production reached an iteration that leaves  *)
(* the cursor and every local unchanged while its guard still holds: such  *)
(* a loop never exits and the production never returns.                    *)
(***************************************************************************)
Null == [type |-> "null"]
IsNull(n) == n.type = "null"
Err(msg) == [type |-> "undefined", error |-> msg]
HasError(n) == "error" \in DOMAIN n

R(n, c) == [node |-> n, cur |-> c, hung |-> FALSE]

(* const value = ...; the statements after it.                             *)
Let(value, In(_)) == In(value)
Hung(toks) == [node |-> Null, cur |-> Len(toks) + 1, hung |-> TRUE]

str_int == <<"i","n","t">>
str_char == <<"c","h","a","r">>
str_float == <<"f","l","o","a","t">>
str_double == <<"d","o","u","b","l","e">>
str_void == <<"v","o","i","d">>
str_return == <<"r","e","t","u","r","n">>
str_if == <<"i","f">>
str_else == <<"e","l","s","e">>
str_for == <<"f","o","r">>
str_printf == <<"p","r","i","n","t","f">>
MissingId == <<"<","m","i","s","s","i","n","g"," ","i","d",">">>

isTypeSpecifier(token) ==
    /\ token.type = "KEYWORD"
    /\ token.value \in {str_int, str_char, str_float, str_double, str_void}

IsSemicolon(toks, cur) ==
    /\ cur <= Len(toks)
    /\ toks[cur].type = "SEPARATOR"
    /\ toks[cur].value = <<";">>

IsOperatorIn(toks, cur, ops) ==
    /\ cur <= Len(toks)
    /\ toks[cur].type = "OPERATOR"
    /\ toks[cur].value \in ops

IsIncDec(toks, cur) ==
    /\ cur <= Len(toks)
    /\ toks[cur].value \in { <<"+","+">>, <<"-","-">> }

RECURSIVE parseStatement(_, _), parseCompoundStatement(_, _),
          parseCompoundLoop(_, _, _), parseIfStatement(_, _),
          parseForStatement(_, _), parseDeclaration(_, _, _),
          parseDeclarationLoop(_, _, _, _), parseExpression(_, _),
          parseAssignment(_, _), parseEquality(_, _), parseRelational(_, _),
          parseAdditive(_, _), parseMultiplicative(_, _),
          parseEqualityLoop(_, _, _), parseRelationalLoop(_, _, _),
          parseAdditiveLoop(_, _, _), parseMultiplicativeLoop(_, _, _),
          parseUnary(_, _), parsePostfix(_, _),
          parsePostfixLoop(_, _, _), parsePrimary(_, _),
          parseArguments(_, _, _)

(* A binary level: left = operand; while (an operator of the level is     *)
(* next) { op; current++; right = operand; left = the BinaryExpression }.  *)
BinaryExpression(op, left, right) ==
    [type |-> "BinaryExpression", operator |-> op, left |-> left, right |-> right]

parseEqualityLoop(toks, cur, left) ==
    IF IsOperatorIn(toks, cur, { <<"=","=">>, <<"!","=">> })
    THEN Let(parseRelational(toks, cur + 1), LAMBDA r :
            IF r.hung THEN Hung(toks)
            ELSE parseEqualityLoop(toks, r.cur,
                     BinaryExpression(toks[cur].value, left, r.node)))
    ELSE R(left, cur)

parseEquality(toks, cur) ==
    Let(parseRelational(toks, cur), LAMBDA l :
       IF l.hung THEN Hung(toks) ELSE parseEqualityLoop(toks, l.cur, l.node))

parseRelationalLoop(toks, cur, left) ==
    IF IsOperatorIn(toks, cur, { <<"<">>, <<">">>, <<"<","=">>, <<">","=">> })
    THEN Let(parseAdditive(toks, cur + 1), LAMBDA r :
            IF r.hung THEN Hung(toks)
            ELSE parseRelationalLoop(toks, r.cur,
                     BinaryExpression(toks[cur].value, left, r.node)))
    ELSE R(left, cur)

parseRelational(toks, cur) ==
    Let(parseAdditive(toks, cur), LAMBDA l :
       IF l.hung THEN Hung(toks) ELSE parseRelationalLoop(toks, l.cur, l.node))

(* the additive level taking a whole additive expression as its right      *)
(* operand                                                                 *)
parseAdditiveLoopRight(toks, cur, left) ==
    IF IsOperatorIn(toks, cur, { <<"+">>, <<"-">> })
    THEN Let(parseAdditive(toks, cur + 1), LAMBDA r :
            IF r.hung THEN Hung(toks)
            ELSE R(BinaryExpression(toks[cur].value, left, r.node), r.cur))
    ELSE R(left, cur)

parseAdditiveLoop(toks, cur, left) ==
    IF IsOperatorIn(toks, cur, { <<"+">>, <<"-">> })
    THEN Let(parseMultiplicative(toks, cur + 1), LAMBDA r :
            IF r.hung THEN Hung(toks)
            ELSE parseAdditiveLoop(toks, r.cur,
                     BinaryExpression(toks[cur].value, left, r.node)))
    ELSE R(left, cur)

parseAdditive(toks, cur) ==
    Let(parseMultiplicative(toks, cur), LAMBDA l :
       IF l.hung THEN Hung(toks) ELSE parseAdditiveLoop(toks, l.cur, l.node))

parseMultiplicativeLoop(toks, cur, left) ==
    IF IsOperatorIn(toks, cur, { <<"*">>, <<"/">>, <<"%">> })
    THEN Let(parseUnary(toks, cur + 1), LAMBDA r :
            IF r.hung THEN Hung(toks)
            ELSE parseMultiplicativeLoop(toks, r.cur,
                     BinaryExpression(toks[cur].value, left, r.node)))
    ELSE R(left, cur)

parseMultiplicative(toks, cur) ==
    Let(parseUnary(toks, cur), LAMBDA l :
       IF l.hung THEN Hung(toks) ELSE parseMultiplicativeLoop(toks, l.cur, l.node))

parseAssignment(toks, cur) ==
    Let(parseEquality(toks, cur), LAMBDA l :
       IF l.hung THEN Hung(toks)
       ELSE IF l.cur <= Len(toks) /\ toks[l.cur].value = <<"=">>
       THEN Let(parseAssignment(toks, l.cur + 1), LAMBDA r :
               IF r.hung THEN Hung(toks)
               ELSE R([type |-> "AssignmentExpression", operator |-> <<"=">>,
                       left |-> l.node, right |-> r.node], r.cur))
       ELSE l)

parseExpression(toks, cur) == parseAssignment(toks, cur)

parseUnary(toks, cur) ==
    IF IsIncDec(toks, cur)
    THEN Let(parseUnary(toks, cur + 1), LAMBDA r :
            IF r.hung THEN Hung(toks)
            ELSE R([type |-> "PrefixExpression", operator |-> toks[cur].value,
                    argument |-> r.node], r.cur))
    ELSE parsePostfix(toks, cur)

parsePostfixLoop(toks, cur, node) ==
    IF IsIncDec(toks, cur)
    THEN parsePostfixLoop(toks, cur + 1,
             [type |-> "PostfixExpression", operator |-> toks[cur].value,
              argument |-> node])
    ELSE R(node, cur)

parsePostfix(toks, cur) ==
    Let(parsePrimary(toks, cur), LAMBDA p :
       IF p.hung THEN Hung(toks) ELSE parsePostfixLoop(toks, p.cur, p.node))

(* The argument loop of a call: one iteration parses an expression, keeps  *)
(* it when it is not null and skips a following comma.  An iteration that  *)
(* consumes no token has parsed null, so it changes nothing and the loop   *)
(* repeats it forever.                                                     *)
parseArguments(toks, cur, args) ==
    IF cur <= Len(toks) /\ toks[cur].type # "CLOSE_PAREN"
    THEN Let(parseExpression(toks, cur), LAMBDA r :
            LET a2 == IF IsNull(r.node) THEN args ELSE Append(args, r.node)
                c2 == IF r.cur <= Len(toks) /\ toks[r.cur].value = <<",">>
                      THEN r.cur + 1 ELSE r.cur
            IN  IF r.hung THEN [args |-> args, cur |-> Len(toks) + 1, hung |-> TRUE]
                ELSE IF c2 = cur /\ IsNull(r.node)
                THEN [args |-> args, cur |-> Len(toks) + 1, hung |-> TRUE]
                ELSE parseArguments(toks, c2, a2))
    ELSE [args |-> args, cur |-> cur, hung |-> FALSE]

parsePrimary(toks, cur) ==
    IF cur > Len(toks) THEN R(Null, cur)
    ELSE LET token == toks[cur] IN
    IF token.type \in {"NUMBER", "STRING_LITERAL"}
    THEN R([type |-> "Literal", value |-> token.value], cur + 1)
    ELSE IF token.type = "IDENTIFIER"
            \/ (token.type = "KEYWORD" /\ ~isTypeSpecifier(token))
    THEN IF cur + 1 <= Len(toks) /\ toks[cur + 1].type = "OPEN_PAREN"
         THEN Let(parseArguments(toks, cur + 2, << >>), LAMBDA a :
                 IF a.hung THEN Hung(toks)
                 ELSE R([type |-> "FunctionCall", name |-> token.value,
                         arguments |-> a.args],
                        IF a.cur <= Len(toks) /\ toks[a.cur].type = "CLOSE_PAREN"
                        THEN a.cur + 1 ELSE a.cur))
         ELSE R([type |-> "Identifier", name |-> token.value], cur + 1)
    ELSE IF token.type = "OPEN_PAREN"
    THEN Let(parseExpression(toks, cur + 1), LAMBDA e :
            IF e.hung THEN Hung(toks)
            ELSE IF e.cur <= Len(toks) /\ toks[e.cur].type = "CLOSE_PAREN"
            THEN R(e.node, e.cur + 1)
            ELSE R(e.node, e.cur))
    ELSE R(Null, cur)

(* while (true) of parseDeclaration: one declarator per iteration.         *)
parseDeclarationLoop(toks, cur, variables, expectSemicolon) ==
    IF cur > Len(toks) \/ toks[cur].type # "IDENTIFIER"
    THEN [variables |-> variables, cur |-> cur, hung |-> FALSE]
    ELSE Let(IF cur + 1 <= Len(toks) /\ toks[cur + 1].value = <<"=">>
             THEN parseExpression(toks, cur + 2)
             ELSE R(Null, cur + 1),
             LAMBDA i :
         Let(Append(variables, [type |-> "VariableDeclarator",
                                name |-> toks[cur].value, initializer |-> i.node]),
             LAMBDA v2 :
             IF i.hung THEN [variables |-> variables, cur |-> Len(toks) + 1, hung |-> TRUE]
             ELSE IF i.cur > Len(toks)
             THEN [variables |-> v2, cur |-> i.cur, hung |-> FALSE]
             ELSE IF toks[i.cur].value = <<",">>
             THEN parseDeclarationLoop(toks, i.cur + 1, v2, expectSemicolon)
             ELSE IF expectSemicolon /\ IsSemicolon(toks, i.cur)
             THEN [variables |-> v2, cur |-> i.cur + 1, hung |-> FALSE]
             ELSE parseDeclarationLoop(toks, i.cur, v2, expectSemicolon)))

parseDeclaration(toks, cur, expectSemicolon) ==
    Let(parseDeclarationLoop(toks, cur + 1, << >>, expectSemicolon), LAMBDA d :
       IF d.hung THEN Hung(toks)
       ELSE R([type |-> "DeclarationStatement", varType |-> toks[cur].value,
               variables |-> d.variables], d.cur))

parseExpressionStatement(toks, cur) ==
    Let(parseExpression(toks, cur), LAMBDA e :
       IF e.hung THEN Hung(toks)
       ELSE R([type |-> "ExpressionStatement", expression |-> e.node],
              IF IsSemicolon(toks, e.cur) THEN e.cur + 1 ELSE e.cur))

parseReturnStatement(toks, cur) ==
    Let(parseExpression(toks, cur + 1), LAMBDA e :
       IF e.hung THEN Hung(toks)
       ELSE R([type |-> "ReturnStatement", expression |-> e.node],
              IF IsSemicolon(toks, e.cur) THEN e.cur + 1 ELSE e.cur))

EndOfInput == Tok("end of input", << >>)

parseIfStatement(toks, cur) ==
    IF cur + 1 > Len(toks) \/ toks[cur + 1].type # "OPEN_PAREN"
    THEN R(Err("Expected '(' after if"), cur + 1)
    ELSE
    Let(parseExpression(toks, cur + 2), LAMBDA c :
    Let(IF c.cur = cur + 2 THEN c.cur + 1 ELSE c.cur, LAMBDA c1 :
    IF c.hung THEN Hung(toks)
    ELSE IF c1 > Len(toks) \/ toks[c1].type # "CLOSE_PAREN"
    THEN R([type |-> "undefined",
            error |-> "Expected ')' after if condition, got: ",
            got |-> IF c1 <= Len(toks) THEN toks[c1] ELSE EndOfInput], c1)
    ELSE
    Let(parseStatement(toks, c1 + 1), LAMBDA t :
    IF t.hung THEN Hung(toks)
    ELSE
    Let(IF /\ t.cur <= Len(toks)
           /\ toks[t.cur].type = "KEYWORD"
           /\ toks[t.cur].value = str_else
        THEN parseStatement(toks, t.cur + 1) ELSE R(Null, t.cur), LAMBDA e :
    IF e.hung THEN Hung(toks)
    ELSE R([type |-> "IfStatement", condition |-> c.node,
            then |-> t.node, else |-> e.node], e.cur)))))

parseForStatement(toks, cur) ==
    IF cur + 1 > Len(toks) \/ toks[cur + 1].type # "OPEN_PAREN"
    THEN R(Err("Expected '(' after for"), cur + 1)
    ELSE
    Let(IF cur + 2 <= Len(toks) /\ isTypeSpecifier(toks[cur + 2])
        THEN parseDeclaration(toks, cur + 2, FALSE)
        ELSE parseExpression(toks, cur + 2), LAMBDA i :
    IF i.hung THEN Hung(toks)
    ELSE
    Let(parseExpression(toks, IF IsSemicolon(toks, i.cur) THEN i.cur + 1 ELSE i.cur),
        LAMBDA c :
    IF c.hung THEN Hung(toks)
    ELSE
    Let(parseExpression(toks, IF IsSemicolon(toks, c.cur) THEN c.cur + 1 ELSE c.cur),
        LAMBDA n :
    IF n.hung THEN Hung(toks)
    ELSE IF n.cur > Len(toks) \/ toks[n.cur].type # "CLOSE_PAREN"
    THEN R(Err("Expected ')' after for increment"), n.cur)
    ELSE
    Let(parseStatement(toks, n.cur + 1), LAMBDA b :
    IF b.hung THEN Hung(toks)
    ELSE R([type |-> "ForStatement", initialization |-> i.node,
            condition |-> c.node, increment |-> n.node, body |-> b.node],
           b.cur)))))

parseStatement(toks, cur) ==
    IF cur > Len(toks) THEN R(Null, cur)
    ELSE LET token == toks[cur] IN
    IF token.type = "COMMENT" THEN R(Null, cur + 1)
    ELSE IF token.type = "KEYWORD" /\ token.value = str_return
    THEN parseReturnStatement(toks, cur)
    ELSE IF token.type = "KEYWORD" /\ token.value = str_if
    THEN parseIfStatement(toks, cur)
    ELSE IF token.type = "KEYWORD" /\ token.value = str_for
    THEN parseForStatement(toks, cur)
    ELSE IF isTypeSpecifier(token) THEN parseDeclaration(toks, cur, TRUE)
    ELSE IF token.type = "OPEN_BRACE" THEN parseCompoundStatement(toks, cur)
    ELSE parseExpressionStatement(toks, cur)

(* The statement loop of a compound statement, body being compound.body;   *)
(* a statement that consumed no token is followed by current++.            *)
parseCompoundLoop(toks, cur, body) ==
    IF cur <= Len(toks) /\ toks[cur].type # "CLOSE_BRACE"
    THEN Let(parseStatement(toks, cur), LAMBDA s :
            IF s.hung THEN Hung(toks)
            ELSE IF HasError(s.node) THEN R(s.node, s.cur)
            ELSE parseCompoundLoop(toks, IF s.cur = cur THEN cur + 1 ELSE s.cur,
                     IF IsNull(s.node) THEN body ELSE Append(body, s.node)))
    ELSE IF cur <= Len(toks) /\ toks[cur].type = "CLOSE_BRACE"
    THEN R([type |-> "CompoundStatement", body |-> body], cur + 1)
    ELSE R(Err("Expected '}' at end of compound statement"), cur)

parseCompoundStatement(toks, cur) ==
    IF toks[cur].type # "OPEN_BRACE"
    THEN R(Err("Expected '{' at beginning of compound statement"), cur)
    ELSE parseCompoundLoop(toks, cur + 1, << >>)

(* The parameter loop of parseFunctionDefinition.                          *)
RECURSIVE parseParameters(_, _, _)
parseParameters(toks, cur, parameters) ==
    IF cur <= Len(toks) /\ toks[cur].value # <<")">>
    THEN IF toks[cur].value = <<",">>
         THEN parseParameters(toks, cur + 1, parameters)
         ELSE IF isTypeSpecifier(toks[cur])
         THEN parseParameters(toks, cur + 2,
                  Append(parameters,
                         [type |-> "Parameter", paramType |-> toks[cur].value,
                          paramName |-> IF cur + 1 <= Len(toks)
                                        THEN toks[cur + 1].value
                                        ELSE MissingId]))
         ELSE parseParameters(toks, cur + 1, parameters)
    ELSE [parameters |-> parameters, cur |-> cur]

parseFunctionDefinition(toks, cur) ==
    IF cur + 1 > Len(toks) \/ toks[cur + 1].type # "IDENTIFIER"
    THEN R(Err("Expected function name"), cur + 1)
    ELSE IF cur + 2 > Len(toks) \/ toks[cur + 2].type # "OPEN_PAREN"
    THEN R(Err("Expected '(' after function name"), cur + 2)
    ELSE
    Let(parseParameters(toks, cur + 3, << >>), LAMBDA p :
    IF p.cur > Len(toks)
    THEN R(Err("Unexpected end of input while parsing function parameters"), p.cur)
    ELSE IF p.cur + 1 > Len(toks) \/ toks[p.cur + 1].type # "OPEN_BRACE"
    THEN R(Err("Expected '{' at beginning of function body"), p.cur + 1)
    ELSE
    Let(parseCompoundStatement(toks, p.cur + 1), LAMBDA b :
    IF b.hung THEN Hung(toks)
    ELSE R([type |-> "FunctionDeclaration", returnType |-> toks[cur].value,
            name |-> toks[cur + 1].value, parameters |-> p.parameters,
            body |-> b.node], b.cur)))

RECURSIVE parseProgramLoop(_, _, _)
parseProgramLoop(toks, cur, body) ==
    IF cur <= Len(toks)
    THEN LET token == toks[cur] IN
         IF token.type = "COMMENT" THEN parseProgramLoop(toks, cur + 1, body)
         ELSE IF token.type = "PREPROCESSOR"
         THEN parseProgramLoop(toks, cur + 1,
                  Append(body, [type |-> "PreprocessorDirective",
                                value |-> trim(token.value)]))
         ELSE IF isTypeSpecifier(token)
         THEN Let(parseFunctionDefinition(toks, cur), LAMBDA f :
                 IF f.hung THEN Hung(toks)
                 ELSE parseProgramLoop(toks, f.cur, Append(body, f.node)))
         ELSE parseProgramLoop(toks, cur + 1, body)
    ELSE R([type |-> "Program", body |-> body], cur)

parseProgram(toks) == parseProgramLoop(toks, 1, << >>)

parse(toks) == parseProgram(toks)

(***************************************************************************)
(* The semantic analyzer of the pipeline (the one that seeds the standard  *)
(* library).  A Map is a function from its keys; the analyzer's fields are *)
(* the record st, and threw is TRUE once a TypeError has been thrown: the  *)
(* exception is caught nowhere inside analyze, so nothing runs after it.   *)
(* Nodes carry no loc, so the line of every symbol is undefined and is     *)
(* left out.  A diagnostic is a record of the parts of its message.        *)
(***************************************************************************)
MapSet(m, k, v) == [x \in (DOMAIN m) \cup {k} |-> IF x = k THEN v ELSE m[x]]
MapHas(m, k) == k \in DOMAIN m
EmptyMap == [x \in {} |-> 0]

(* JavaScript's undefined and null where a string may stand: one-element   *)
(* sequences that no text equals, text being made of single characters.    *)
Undefined == <<"undefined">>
NullStr == <<"null">>

(* node.name, undefined when the node has no such property.                *)
NameOf(node) == IF "name" \in DOMAIN node THEN node.name ELSE Undefined

str_charp == <<"c","h","a","r","*">>
str_voidp == <<"v","o","i","d","*">>
Lib(name, params, returnType) ==
    [name |-> name, params |-> params, returnType |-> returnType,
     isStandardLibrary |-> TRUE]
Prm(name, type) == [name |-> name, type |-> type]

stdlibFunctions ==
    << Lib(str_printf, << Prm(<<"f","o","r","m","a","t">>, str_charp) >>, str_int),
       Lib(<<"s","c","a","n","f">>, << Prm(<<"f","o","r","m","a","t">>, str_charp) >>, str_int),
       Lib(<<"s","t","r","l","e","n">>, << Prm(<<"s","t","r">>, str_charp) >>, str_int),
       Lib(<<"s","t","r","c","p","y">>,
           << Prm(<<"d","e","s","t">>, str_charp), Prm(<<"s","r","c">>, str_charp) >>,
           str_charp),
       Lib(<<"m","a","l","l","o","c">>, << Prm(<<"s","i","z","e">>, str_int) >>, str_voidp),
       Lib(<<"f","r","e","e">>, << Prm(<<"p","t","r">>, str_voidp) >>, str_void),
       Lib(<<"e","x","i","t">>, << Prm(<<"s","t","a","t","u","s">>, str_int) >>, str_void) >>

addStandardLibraryFunctions(st) ==
    [st EXCEPT !.functionTable =
        [n \in (DOMAIN @) \cup {stdlibFunctions[k].name : k \in DOMAIN stdlibFunctions}
           |-> IF \E k \in DOMAIN stdlibFunctions : stdlibFunctions[k].name = n
               THEN LET k == CHOOSE k \in DOMAIN stdlibFunctions :
                                 stdlibFunctions[k].name = n
                    IN  stdlibFunctions[k]
               ELSE @[n]]]

PushError(st, e) == [st EXCEPT !.errors = Append(@, e)]

RECURSIVE analyzeStatement(_, _), analyzeStatements(_, _, _),
          analyzeExpression(_, _), analyzeArguments(_, _, _),
          analyzeDeclarators(_, _, _, _)

analyzeIdentifier(st, expr) ==
    IF ~MapHas(st.symbolTable, expr.name)
    THEN PushError(st, [msg |-> "Variable not declared", name |-> expr.name])
    ELSE st

(* for (const arg of expr.arguments) this.analyzeExpression(arg)           *)
analyzeArguments(st, args, k) ==
    IF st.threw \/ k > Len(args) THEN st
    ELSE analyzeArguments(analyzeExpression(st, args[k]), args, k + 1)

analyzeFunctionCall(st, expr) ==
    IF ~MapHas(st.functionTable, expr.name)
    THEN PushError(st, [msg |-> "Function not declared", name |-> expr.name])
    ELSE LET func == st.functionTable[expr.name]
             s1 == IF expr.name # str_printf
                      /\ Len(expr.arguments) # Len(func.params)
                   THEN PushError(st, [msg |-> "Function expects arguments",
                                       name |-> expr.name,
                                       expects |-> Len(func.params),
                                       got |-> Len(expr.arguments)])
                   ELSE st
         IN  analyzeArguments(s1, expr.arguments, 1)

(* expr.left.name throws a TypeError when expr.left is null.               *)
analyzeAssignmentExpression(st, expr) ==
    IF IsNull(expr.left) THEN [st EXCEPT !.threw = TRUE]
    ELSE LET s1 == IF ~MapHas(st.symbolTable, NameOf(expr.left))
                   THEN PushError(st, [msg |-> "Variable not declared",
                                       name |-> NameOf(expr.left)])
                   ELSE st
         IN  analyzeExpression(s1, expr.right)

analyzeExpression(st, expr) ==
    IF st.threw \/ IsNull(expr) THEN st
    ELSE CASE expr.type = "AssignmentExpression" ->
                  analyzeAssignmentExpression(st, expr)
           [] expr.type = "BinaryExpression" ->
                  analyzeExpression(analyzeExpression(st, expr.left), expr.right)
           [] expr.type = "Identifier" -> analyzeIdentifier(st, expr)
           [] expr.type = "Literal" -> st
           [] expr.type = "FunctionCall" -> analyzeFunctionCall(st, expr)
           [] expr.type \in {"PrefixExpression", "PostfixExpression"} ->
                  analyzeExpression(st, expr.argument)
           [] OTHER -> st

(* analyzeDeclarators with a redeclaration overwriting the symbol.          *)
analyzeDeclaratorsOverwriting(st, node, variables, k) ==
    IF st.threw \/ k > Len(variables) THEN st
    ELSE LET variable == variables[k]
             symbolInfo == [name |-> variable.name, type |-> node.varType,
                            isParam |-> FALSE, scope |-> st.currentFunctionScope]
             s0 == [st EXCEPT
                      !.symbolTable = MapSet(@, variable.name, symbolInfo),
                      !.globalSymbolTable = MapSet(@, variable.name, symbolInfo)]
             s1 == IF MapHas(st.symbolTable, variable.name)
                   THEN PushError(s0, [msg |-> "Variable already declared",
                                       name |-> variable.name])
                   ELSE analyzeExpression(s0, variable.initializer)
         IN  analyzeDeclarators(s1, node, variables, k + 1)

(* for (const variable of node.variables) of analyzeDeclaration            *)
analyzeDeclarators(st, node, variables, k) ==
    IF st.threw \/ k > Len(variables) THEN st
    ELSE LET variable == variables[k]
             symbolInfo == [name |-> variable.name, type |-> node.varType,
                            isParam |-> FALSE, scope |-> st.currentFunctionScope]
             s1 == IF MapHas(st.symbolTable, variable.name)
                   THEN PushError(st, [msg |-> "Variable already declared",
                                       name |-> variable.name])
                   ELSE analyzeExpression(
                            [st EXCEPT
                               !.symbolTable = MapSet(@, variable.name, symbolInfo),
                               !.globalSymbolTable = MapSet(@, variable.name, symbolInfo)],
                            variable.initializer)
         IN  analyzeDeclarators(s1, node, variables, k + 1)

analyzeDeclaration(st, node) == analyzeDeclarators(st, node, node.variables, 1)

analyzeStatements(st, body, k) ==
    IF st.threw \/ k > Len(body) THEN st
    ELSE analyzeStatements(analyzeStatement(st, body[k]), body, k + 1)

analyzeCompoundStatement(st, node) == analyzeStatements(st, node.body, 1)

analyzeIfStatement(st, node) ==
    LET s1 == analyzeExpression(st, node.condition)
        s2 == analyzeStatement(s1, node.then)
    IN  IF IsNull(node.else) THEN s2 ELSE analyzeStatement(s2, node.else)

analyzeForStatement(st, node) ==
    LET s1 == IF IsNull(node.initialization) THEN st
              ELSE analyzeStatement(st, node.initialization)
        s2 == analyzeExpression(s1, node.condition)
        s3 == IF IsNull(node.increment) THEN s2
              ELSE analyzeExpression(s2, node.increment)
    IN  analyzeStatement(s3, node.body)

analyzeStatement(st, stmt) ==
    IF st.threw \/ IsNull(stmt) THEN st
    ELSE CASE stmt.type = "DeclarationStatement" -> analyzeDeclaration(st, stmt)
           [] stmt.type = "ExpressionStatement" ->
                  analyzeExpression(st, stmt.expression)
           [] stmt.type = "ReturnStatement" ->
                  analyzeExpression(st, stmt.expression)
           [] stmt.type = "IfStatement" -> analyzeIfStatement(st, stmt)
           [] stmt.type = "ForStatement" -> analyzeForStatement(st, stmt)
           [] stmt.type = "CompoundStatement" -> analyzeCompoundStatement(st, stmt)
           [] OTHER -> st

RECURSIVE ParamInfos(_, _)
ParamInfos(parameters, k) ==
    IF k > Len(parameters) THEN << >>
    ELSE << [name |-> parameters[k].paramName, type |-> parameters[k].paramType,
             isParam |-> TRUE] >> \o ParamInfos(parameters, k + 1)

RECURSIVE SetAll(_, _, _, _)
SetAll(m, infos, scope, k) ==
    IF k > Len(infos) THEN m
    ELSE SetAll(MapSet(m, infos[k].name,
                       [name |-> infos[k].name, type |-> infos[k].type,
                        isParam |-> TRUE, scope |-> scope]),
                infos, scope, k + 1)

(* Registers the signature of the function, then analyzes its body in a    *)
(* symbol table that holds the parameters, copies the symbols of that      *)
(* table into the global table and restores the table of the caller.       *)
analyzeFunction(st, node) ==
    LET funcName == node.name
        params   == ParamInfos(node.parameters, 1)
        functionInfo == [name |-> funcName, params |-> params,
                         returnType |-> node.returnType,
                         isStandardLibrary |-> FALSE]
        s1 == [st EXCEPT
                 !.currentFunctionScope = funcName,
                 !.globalSymbolTable = SetAll(@, params, funcName, 1),
                 !.functionTable = MapSet(@, funcName, functionInfo),
                 !.symbolTable = SetAll(EmptyMap, params, funcName, 1)]
    IN  Let(IF node.body.type = "CompoundStatement"
            THEN Let(analyzeCompoundStatement(s1, node.body), LAMBDA b :
                    [b EXCEPT !.globalSymbolTable =
                       [n \in (DOMAIN @) \cup DOMAIN b.symbolTable |->
                          IF n \in DOMAIN b.symbolTable
                          THEN [b.symbolTable[n] EXCEPT !.scope = funcName]
                          ELSE @[n]]])
            ELSE s1, LAMBDA s2 :
           IF s2.threw THEN s2
           ELSE [s2 EXCEPT !.symbolTable = st.symbolTable,
                           !.currentFunctionScope = st.currentFunctionScope])

RECURSIVE analyzeFunctions(_, _, _)
analyzeFunctions(st, body, k) ==
    IF st.threw \/ k > Len(body) THEN st
    ELSE analyzeFunctions(
             IF body[k].type = "FunctionDeclaration"
             THEN analyzeFunction(st, body[k]) ELSE st,
             body, k + 1)

NoScope == << >>

analyze(tree) ==
    LET s0 == addStandardLibraryFunctions(
                 [symbolTable |-> EmptyMap, functionTable |-> EmptyMap,
                  globalSymbolTable |-> EmptyMap, errors |-> << >>,
                  currentFunctionScope |-> NoScope, threw |-> FALSE])
    IN  IF tree.type = "Program" THEN analyzeFunctions(s0, tree.body, 1) ELSE s0

(***************************************************************************)
(* The intermediate code generator.  g is the generator while a function   *)
(* is being generated: the instructions and tempCount of currentFunction,  *)
(* labelCounter, and threw, TRUE once a TypeError has been thrown.  An     *)
(* expression's lowering returns g and the name that holds the value.      *)
(***************************************************************************)
DigitChar == <<"0","1","2","3","4","5","6","7","8","9">>

RECURSIVE toString(_)
toString(n) ==
    IF n < 10 THEN <<DigitChar[n + 1]>>
    ELSE Append(toString(n \div 10), DigitChar[(n % 10) + 1])

op_LABEL == <<"L","A","B","E","L">>
op_GOTO == <<"G","O","T","O">>
op_IF_FALSE == <<"I","F","_","F","A","L","S","E">>
op_PARAM == <<"P","A","R","A","M">>
op_CALL == <<"C","A","L","L">>
op_RETURN == <<"R","E","T","U","R","N">>
op_ASSIGN == <<"=">>

Instr(op, arg1, arg2, result) ==
    [op |-> op, arg1 |-> arg1, arg2 |-> arg2, result |-> result]

emitInstruction(g, op, arg1, arg2, result) ==
    [g EXCEPT !.instructions = Append(@, Instr(op, arg1, arg2, result))]

(* currentFunction.tempCount++; return `t${tempCount}`                     *)
newTemp(g) ==
    [g |-> [g EXCEPT !.tempCount = @ + 1],
     name |-> <<"t">> \o toString(g.tempCount + 1)]

newLabel(g) ==
    [g |-> [g EXCEPT !.labelCounter = @ + 1],
     name |-> <<"L">> \o toString(g.labelCounter + 1)]

GR(g, name) == [g |-> g, name |-> name]
Throw(g) == GR([g EXCEPT !.threw = TRUE], << >>)

RECURSIVE generateExpression(_, _), generateStatement(_, _),
          generateStatements(_, _, _), generateArguments(_, _, _, _),
          emitParams(_, _, _), generateDeclarators(_, _, _)

generateLiteral(g, node) ==
    LET t == newTemp(g)
    IN  GR(emitInstruction(t.g, op_ASSIGN, node.value, NullStr, t.name), t.name)

(* generateBinaryExpression with the operands of the instruction swapped.  *)
generateBinaryExpressionSwapped(g, expr) ==
    Let(generateExpression(g, expr.left), LAMBDA l :
    Let(generateExpression(l.g, expr.right), LAMBDA r :
    Let(newTemp(r.g), LAMBDA t :
       IF r.g.threw THEN Throw(r.g)
       ELSE GR(emitInstruction(t.g, expr.operator, r.name, l.name, t.name), t.name))))

generateBinaryExpression(g, expr) ==
    Let(generateExpression(g, expr.left), LAMBDA l :
    Let(generateExpression(l.g, expr.right), LAMBDA r :
    Let(newTemp(r.g), LAMBDA t :
       IF r.g.threw THEN Throw(r.g)
       ELSE GR(emitInstruction(t.g, expr.operator, l.name, r.name, t.name), t.name))))

(* expr.left.name throws a TypeError when expr.left is null.               *)
generateAssignmentExpression(g, expr) ==
    Let(generateExpression(g, expr.right), LAMBDA r :
       IF r.g.threw \/ IsNull(expr.left) THEN Throw(r.g)
       ELSE GR(emitInstruction(r.g, op_ASSIGN, r.name, NullStr, NameOf(expr.left)),
               NameOf(expr.left)))

(* expr.arguments.map(arg => this.generateExpression(arg))                 *)
generateArguments(g, args, k, names) ==
    IF g.threw \/ k > Len(args) THEN [g |-> g, names |-> names]
    ELSE Let(generateExpression(g, args[k]), LAMBDA a :
            generateArguments(a.g, args, k + 1, Append(names, a.name)))

emitParams(g, names, k) ==
    IF k > Len(names) THEN g
    ELSE emitParams(emitInstruction(g, op_PARAM, names[k], NullStr, NullStr),
                    names, k + 1)

generateFunctionCall(g, expr) ==
    Let(generateArguments(g, expr.arguments, 1, << >>), LAMBDA a :
    Let(newTemp(a.g), LAMBDA t :
       IF a.g.threw THEN Throw(a.g)
       ELSE GR(emitInstruction(emitParams(t.g, a.names, 1), op_CALL, expr.name,
                               toString(Len(a.names)), t.name),
               t.name)))

(* The parser builds PrefixExpression and PostfixExpression nodes without  *)
(* a prefix property; expr.prefix is then undefined, which is falsy.       *)
(* expr.argument.name throws a TypeError when expr.argument is null.       *)
generateUnaryExpression(g, expr) ==
    Let(generateExpression(g, expr.argument), LAMBDA o :
    Let(newTemp(o.g), LAMBDA t :
       IF o.g.threw THEN Throw(o.g)
       ELSE IF expr.operator \in { <<"+","+">>, <<"-","-">> }
       THEN Let(emitInstruction(t.g,
                    IF expr.operator = <<"+","+">> THEN <<"+">> ELSE <<"-">>,
                    o.name, <<"1">>, t.name), LAMBDA g1 :
               IF IsNull(expr.argument) THEN Throw(g1)
               ELSE GR(emitInstruction(g1, op_ASSIGN, t.name, NullStr,
                                       NameOf(expr.argument)),
                       IF "prefix" \in DOMAIN expr /\ expr.prefix
                       THEN t.name ELSE o.name))
       ELSE GR(emitInstruction(t.g, expr.operator, o.name, NullStr, t.name), t.name)))

generateExpression(g, expr) ==
    IF g.threw THEN GR(g, << >>)
    ELSE IF IsNull(expr) THEN GR(g, << >>)
    ELSE CASE expr.type = "AssignmentExpression" -> generateAssignmentExpression(g, expr)
           [] expr.type = "BinaryExpression" -> generateBinaryExpression(g, expr)
           [] expr.type = "Identifier" -> GR(g, expr.name)
           [] expr.type = "Literal" -> generateLiteral(g, expr)
           [] expr.type = "FunctionCall" -> generateFunctionCall(g, expr)
           [] expr.type \in {"PrefixExpression", "PostfixExpression"} ->
                  generateUnaryExpression(g, expr)
           [] OTHER -> GR(g, << >>)

generateDeclarators(g, variables, k) ==
    IF g.threw \/ k > Len(variables) THEN g
    ELSE IF IsNull(variables[k].initializer)
    THEN generateDeclarators(g, variables, k + 1)
    ELSE Let(generateExpression(g, variables[k].initializer), LAMBDA t :
            generateDeclarators(
                IF t.g.threw THEN t.g
                ELSE emitInstruction(t.g, op_ASSIGN, t.name, NullStr, variables[k].name),
                variables, k + 1))

generateDeclaration(g, node) == generateDeclarators(g, node.variables, 1)

generateReturnStatement(g, node) ==
    IF ~IsNull(node.expression)
    THEN Let(generateExpression(g, node.expression), LAMBDA t :
            IF t.g.threw THEN t.g
            ELSE emitInstruction(t.g, op_RETURN, t.name, NullStr, NullStr))
    ELSE emitInstruction(g, op_RETURN, NullStr, NullStr, NullStr)

generateStatements(g, body, k) ==
    IF g.threw \/ k > Len(body) THEN g
    ELSE generateStatements(generateStatement(g, body[k]), body, k + 1)

generateCompoundStatement(g, node) == generateStatements(g, node.body, 1)

(* generateIfStatement with the else label emitted before the jump to the  *)
(* end label.                                                              *)
generateIfStatementElseFirst(g, node) ==
    Let(generateExpression(g, node.condition), LAMBDA c :
    IF c.g.threw THEN c.g
    ELSE
    Let(newLabel(c.g), LAMBDA elseLabel :
    Let(newLabel(elseLabel.g), LAMBDA endLabel :
    Let(generateStatement(
            emitInstruction(endLabel.g, op_IF_FALSE, c.name, elseLabel.name, NullStr),
            node.then), LAMBDA g2 :
    IF g2.threw THEN g2
    ELSE
    Let(emitInstruction(emitInstruction(g2, op_LABEL, NullStr, NullStr, elseLabel.name),
                        op_GOTO, endLabel.name, NullStr, NullStr), LAMBDA g4 :
    Let(IF IsNull(node.else) THEN g4 ELSE generateStatement(g4, node.else), LAMBDA g5 :
    IF g5.threw THEN g5
    ELSE emitInstruction(g5, op_LABEL, NullStr, NullStr, endLabel.name)))))))

generateIfStatement(g, node) ==
    Let(generateExpression(g, node.condition), LAMBDA c :
    IF c.g.threw THEN c.g
    ELSE
    Let(newLabel(c.g), LAMBDA elseLabel :
    Let(newLabel(elseLabel.g), LAMBDA endLabel :
    Let(generateStatement(
            emitInstruction(endLabel.g, op_IF_FALSE, c.name, elseLabel.name, NullStr),
            node.then), LAMBDA g2 :
    IF g2.threw THEN g2
    ELSE
    Let(emitInstruction(emitInstruction(g2, op_GOTO, endLabel.name, NullStr, NullStr),
                        op_LABEL, NullStr, NullStr, elseLabel.name), LAMBDA g4 :
    Let(IF IsNull(node.else) THEN g4 ELSE generateStatement(g4, node.else), LAMBDA g5 :
    IF g5.threw THEN g5
    ELSE emitInstruction(g5, op_LABEL, NullStr, NullStr, endLabel.name)))))))

(* newLabel is called four times: start, condition, increment, end.        *)
generateForStatement(g, node) ==
    Let(newLabel(g), LAMBDA startLabel :
    Let(newLabel(newLabel(startLabel.g).g), LAMBDA incrementLabel :
    Let(newLabel(incrementLabel.g), LAMBDA endLabel :
    Let(IF IsNull(node.initialization) THEN endLabel.g
        ELSE generateStatement(endLabel.g, node.initialization), LAMBDA g1 :
    IF g1.threw THEN g1
    ELSE
    Let(generateExpression(
            emitInstruction(g1, op_LABEL, NullStr, NullStr, startLabel.name),
            node.condition), LAMBDA c :
    IF c.g.threw THEN c.g
    ELSE
    Let(generateStatement(
            emitInstruction(c.g, op_IF_FALSE, c.name, endLabel.name, NullStr),
            node.body), LAMBDA g4 :
    IF g4.threw THEN g4
    ELSE
    Let(emitInstruction(g4, op_LABEL, NullStr, NullStr, incrementLabel.name),
        LAMBDA g5 :
    Let(IF IsNull(node.increment) THEN GR(g5, << >>)
        ELSE generateExpression(g5, node.increment), LAMBDA n :
    IF n.g.threw THEN n.g
    ELSE emitInstruction(
             emitInstruction(n.g, op_GOTO, startLabel.name, NullStr, NullStr),
             op_LABEL, NullStr, NullStr, endLabel.name)))))))))

generateStatement(g, stmt) ==
    IF g.threw \/ IsNull(stmt) THEN g
    ELSE CASE stmt.type = "DeclarationStatement" -> generateDeclaration(g, stmt)
           [] stmt.type = "ExpressionStatement" ->
                  generateExpression(g, stmt.expression).g
           [] stmt.type = "ReturnStatement" -> generateReturnStatement(g, stmt)
           [] stmt.type = "IfStatement" -> generateIfStatement(g, stmt)
           [] stmt.type = "ForStatement" -> generateForStatement(g, stmt)
           [] stmt.type = "CompoundStatement" -> generateCompoundStatement(g, stmt)
           [] OTHER -> g

RECURSIVE ParamNames(_, _)
ParamNames(parameters, k) ==
    IF k > Len(parameters) THEN << >>
    ELSE <<parameters[k].paramName>> \o ParamNames(parameters, k + 1)

(* functions.set(name, fn) on the Map kept as the list of its entries in   *)
(* insertion order: an existing key keeps its place.                       *)
FunctionsSet(functions, fn) ==
    IF \E k \in DOMAIN functions : functions[k].name = fn.name
    THEN [k \in DOMAIN functions |->
             IF functions[k].name = fn.name THEN fn ELSE functions[k]]
    ELSE Append(functions, fn)

(* generateFunction with the labels numbered from one in every function.   *)
generateFunctionLocalLabels(gen, node) ==
    Let(emitInstruction([instructions |-> << >>, tempCount |-> 0,
                         labelCounter |-> 0, threw |-> FALSE],
                        op_LABEL, NullStr, NullStr,
                        <<"f","u","n","c","_">> \o node.name), LAMBDA g1 :
    Let(IF node.body.type = "CompoundStatement"
        THEN generateCompoundStatement(g1, node.body) ELSE g1, LAMBDA g2 :
    IF g2.threw THEN [gen EXCEPT !.threw = TRUE]
    ELSE [gen EXCEPT
            !.functions = FunctionsSet(@,
                [name |-> node.name,
                 params |-> ParamNames(node.parameters, 1),
                 instructions |-> g2.instructions,
                 tempCount |-> g2.tempCount]),
            !.labelCounter = g2.labelCounter]))

(* gen is the generator between functions: the functions map, labelCounter *)
(* and threw.                                                              *)
generateFunction(gen, node) ==
    Let(emitInstruction([instructions |-> << >>, tempCount |-> 0,
                         labelCounter |-> gen.labelCounter, threw |-> FALSE],
                        op_LABEL, NullStr, NullStr,
                        <<"f","u","n","c","_">> \o node.name), LAMBDA g1 :
    Let(IF node.body.type = "CompoundStatement"
        THEN generateCompoundStatement(g1, node.body) ELSE g1, LAMBDA g2 :
    IF g2.threw THEN [gen EXCEPT !.threw = TRUE]
    ELSE [gen EXCEPT
            !.functions = FunctionsSet(@,
                [name |-> node.name,
                 params |-> ParamNames(node.parameters, 1),
                 instructions |-> g2.instructions,
                 tempCount |-> g2.tempCount]),
            !.labelCounter = g2.labelCounter]))

RECURSIVE generateFunctions(_, _, _)
generateFunctions(gen, body, k) ==
    IF gen.threw \/ k > Len(body) THEN gen
    ELSE generateFunctions(
             IF body[k].type = "FunctionDeclaration"
             THEN generateFunction(gen, body[k]) ELSE gen,
             body, k + 1)

generate(tree) ==
    LET gen0 == [functions |-> << >>, labelCounter |-> 0, threw |-> FALSE]
    IN  IF tree.type = "Program" THEN generateFunctions(gen0, tree.body, 1)
        ELSE gen0

(***************************************************************************)
(* The meaning of a straight-line instruction list on the machine the code *)
(* generator targets: '=' copies, '+', '-' and '*' compute, an operand     *)
(* that is a numeral stands for its value and any other operand for the    *)
(* contents of its location.  env maps a location name to its contents;    *)
(* ret is the operand's value at the first RETURN.                         *)
(***************************************************************************)
IsNumeral(operand) ==
    operand # << >> /\ \A k \in DOMAIN operand : operand[k] \in Digit

DigitValue(c) == CHOOSE d \in 0..9 : DigitChar[d + 1] = c

RECURSIVE Number(_)
Number(operand) ==
    IF Len(operand) = 1 THEN DigitValue(operand[1])
    ELSE 10 * Number(SubSeq(operand, 1, Len(operand) - 1))
         + DigitValue(operand[Len(operand)])

ValueOf(env, operand) ==
    IF IsNumeral(operand) THEN Number(operand)
    ELSE IF operand \in DOMAIN env THEN env[operand] ELSE 0

RECURSIVE Exec(_, _, _)
Exec(instructions, k, env) ==
    IF k > Len(instructions) THEN [env |-> env, returned |-> FALSE, ret |-> 0]
    ELSE LET i == instructions[k] IN
         IF i.op = op_RETURN
         THEN [env |-> env, returned |-> TRUE, ret |-> ValueOf(env, i.arg1)]
         ELSE IF i.op = op_ASSIGN
         THEN Exec(instructions, k + 1, MapSet(env, i.result, ValueOf(env, i.arg1)))
         ELSE IF i.op = <<"+">>
         THEN Exec(instructions, k + 1,
                   MapSet(env, i.result, ValueOf(env, i.arg1) + ValueOf(env, i.arg2)))
         ELSE IF i.op = <<"-">>
         THEN Exec(instructions, k + 1,
                   MapSet(env, i.result, ValueOf(env, i.arg1) - ValueOf(env, i.arg2)))
         ELSE IF i.op = <<"*">>
         THEN Exec(instructions, k + 1,
                   MapSet(env, i.result, ValueOf(env, i.arg1) * ValueOf(env, i.arg2)))
         ELSE Exec(instructions, k + 1, env)

(***************************************************************************)
(* The optimizer.  JavaScript's Number(x) on an operand: null and the      *)
(* empty text are 0, a decimal numeral (an optional '-', digits, at most   *)
(* one '.') is its value, "Infinity" is infinite, any other text (a name,  *)
(* "NaN", undefined) is NaN.  A finite value is kept as the fraction n/d,  *)
(* exact wherever the double arithmetic of the program is exact.           *)
(***************************************************************************)
str_Infinity == <<"I","n","f","i","n","i","t","y">>
str_NaN == <<"N","a","N">>

Unsigned(operand) ==
    IF operand # << >> /\ operand[1] = "-" THEN Tail(operand) ELSE operand

IsDecimalText(operand) ==
    LET body == Unsigned(operand) IN
    /\ \A k \in DOMAIN body : body[k] \in Digit \cup {"."}
    /\ \E k \in DOMAIN body : body[k] \in Digit
    /\ Cardinality({ k \in DOMAIN body : body[k] = "." }) <= 1

(* !isNaN(Number(operand))                                                 *)
isNumeric(operand) ==
    \/ operand \in {NullStr, << >>, str_Infinity, <<"-">> \o str_Infinity}
    \/ IsDecimalText(operand)

(* operand as it stands in a condition or on the left of ||                *)
Truthy(operand) == operand \notin {NullStr, Undefined, << >>}

RECURSIVE Pow10(_)
Pow10(k) == IF k = 0 THEN 1 ELSE 10 * Pow10(k - 1)

(* Number(operand) of a finite numeric operand                             *)
toNumber(operand) ==
    IF ~Truthy(operand) THEN [n |-> 0, d |-> 1]
    ELSE LET body == Unsigned(operand)
             digits == SelectSeq(body, LAMBDA c : c # ".")
             dot == IF \E k \in DOMAIN body : body[k] = "."
                    THEN CHOOSE k \in DOMAIN body : body[k] = "."
                    ELSE Len(body)
         IN  [n |-> (IF operand[1] = "-" THEN -1 ELSE 1) * Number(digits),
              d |-> Pow10(Len(body) - dot)]

Abs(x) == IF x < 0 THEN -x ELSE x

(* the digits of r/d after the point, at most 17 of them                   *)
RECURSIVE FractionDigits(_, _, _)
FractionDigits(r, d, k) ==
    IF r = 0 \/ k = 0 THEN << >>
    ELSE <<DigitChar[((r * 10) \div d) + 1]>>
         \o FractionDigits((r * 10) % d, d, k - 1)

(* (n/d).toString()                                                        *)
numberToString(x) ==
    LET n == IF x.d < 0 THEN -x.n ELSE x.n
        d == Abs(x.d)
    IN  (IF n < 0 THEN <<"-">> ELSE << >>)
        \o toString(Abs(n) \div d)
        \o (IF Abs(n) % d = 0 THEN << >>
            ELSE <<".">> \o FractionDigits(Abs(n) % d, d, 17))

evaluateConstantExpression(op, arg1, arg2) ==
    LET num1 == toNumber(arg1)
        num2 == toNumber(arg2)
    IN  IF op = <<"+">>
        THEN numberToString([n |-> num1.n * num2.d + num2.n * num1.d,
                             d |-> num1.d * num2.d])
        ELSE IF op = <<"-">>
        THEN numberToString([n |-> num1.n * num2.d - num2.n * num1.d,
                             d |-> num1.d * num2.d])
        ELSE IF op = <<"*">>
        THEN numberToString([n |-> num1.n * num2.n, d |-> num1.d * num2.d])
        ELSE IF op = <<"/">>
        THEN IF num2.n # 0
             THEN numberToString([n |-> num1.n * num2.d, d |-> num1.d * num2.n])
             ELSE IF num1.n = 0 THEN str_NaN
             ELSE IF num1.n > 0 THEN str_Infinity
             ELSE <<"-">> \o str_Infinity
        ELSE IF op = <<"%">>
        THEN IF num2.n = 0 THEN str_NaN
             ELSE LET a == num1.n * num2.d
                      b == Abs(num2.n * num1.d)
                  IN  numberToString(
                          [n |-> (IF a < 0 THEN -1 ELSE 1) * (Abs(a) % b),
                           d |-> num1.d * num2.d])
        ELSE arg1

(* constants.get(operand) || operand                                       *)
Resolve(constants, operand) ==
    IF MapHas(constants, operand) /\ Truthy(constants[operand])
    THEN constants[operand] ELSE operand

IsControl(instr) == instr.op \in {op_LABEL, op_GOTO, op_IF_FALSE}

(* { ...instr, arg1, arg2 }                                                *)
WithArgs(instr, arg1, arg2) == [instr EXCEPT !.arg1 = arg1, !.arg2 = arg2]

RECURSIVE constantFoldingLoop(_, _, _, _)
constantFoldingLoop(instructions, k, constants, optimizedInstructions) ==
    IF k > Len(instructions) THEN optimizedInstructions
    ELSE LET instr == instructions[k]
             arg1 == Resolve(constants, instr.arg1)
             arg2 == Resolve(constants, instr.arg2)
             folds == instr.op # op_ASSIGN /\ isNumeric(arg1) /\ isNumeric(arg2)
         IN  IF IsControl(instr)
             THEN constantFoldingLoop(instructions, k + 1, constants,
                      Append(optimizedInstructions, instr))
             ELSE IF instr.op = op_ASSIGN /\ isNumeric(instr.arg1)
             THEN constantFoldingLoop(instructions, k + 1,
                      MapSet(constants, instr.result, instr.arg1),
                      Append(optimizedInstructions, instr))
             ELSE IF folds
             THEN constantFoldingLoop(instructions, k + 1,
                      MapSet(constants, instr.result,
                             evaluateConstantExpression(instr.op, arg1, arg2)),
                      Append(optimizedInstructions,
                             Instr(op_ASSIGN,
                                   evaluateConstantExpression(instr.op, arg1, arg2),
                                   NullStr, instr.result)))
             ELSE constantFoldingLoop(instructions, k + 1, constants,
                      Append(optimizedInstructions, WithArgs(instr, arg1, arg2)))

constantFolding(instructions) ==
    constantFoldingLoop(instructions, 1, EmptyMap, << >>)

(* the operands the first pass of deadCodeElimination collects             *)
usedVars(instructions) ==
    { operand \in { instructions[k].arg1 : k \in DOMAIN instructions }
                    \cup { instructions[k].arg2 : k \in DOMAIN instructions } :
          Truthy(operand) /\ operand[1] # "L" }

(* deadCodeElimination without its second pass                             *)
deadCodeEliminationKeeping(instructions) == instructions

deadCodeElimination(instructions) ==
    SelectSeq(instructions,
              LAMBDA instr : ~(instr.op = op_ASSIGN
                               /\ instr.result \notin usedVars(instructions)))

(* `${operand}` inside a template literal                                  *)
InTemplate(operand) ==
    IF operand = NullStr THEN <<"n","u","l","l">>
    ELSE IF operand = Undefined THEN <<"u","n","d","e","f","i","n","e","d">>
    ELSE operand

RECURSIVE commonSubexpressionLoop(_, _, _, _)
commonSubexpressionLoop(instructions, k, expressions, optimizedInstructions) ==
    IF k > Len(instructions) THEN optimizedInstructions
    ELSE LET instr == instructions[k]
             exprKey == instr.op \o InTemplate(instr.arg1) \o InTemplate(instr.arg2)
         IN  IF IsControl(instr)
             THEN commonSubexpressionLoop(instructions, k + 1, expressions,
                      Append(optimizedInstructions, instr))
             ELSE IF MapHas(expressions, exprKey)
             THEN commonSubexpressionLoop(instructions, k + 1, expressions,
                      Append(optimizedInstructions,
                             Instr(op_ASSIGN, expressions[exprKey], NullStr,
                                   instr.result)))
             ELSE commonSubexpressionLoop(instructions, k + 1,
                      MapSet(expressions, exprKey, instr.result),
                      Append(optimizedInstructions, instr))

commonSubexpressionElimination(instructions) ==
    commonSubexpressionLoop(instructions, 1, EmptyMap, << >>)

(* { ...instr, label: 'OPTIMIZED_LOOP' }                                   *)
OptimizedLoop(instr) ==
    [op |-> instr.op, arg1 |-> instr.arg1, arg2 |-> instr.arg2,
     result |-> instr.result,
     label |-> <<"O","P","T","I","M","I","Z","E","D","_","L","O","O","P">>]

(* the index of the first GOTO back to the label at i, 0 when none         *)
LoopEnd(instructions, i) ==
    LET ends == { j \in (i + 1)..Len(instructions) :
                     /\ instructions[j].op = op_GOTO
                     /\ instructions[j].arg1 = instructions[i].result }
    IN  IF ends = {} THEN 0 ELSE Min(ends)

HasIncrement(instructions, loopStart, loopEnd) ==
    \E j \in loopStart..(loopEnd - 1) :
        instructions[j].op = <<"+">> /\ instructions[j].arg2 = <<"1">>

RECURSIVE loopOptimizationLoop(_, _, _)
loopOptimizationLoop(instructions, i, optimizedInstructions) ==
    IF i > Len(instructions) THEN optimizedInstructions
    ELSE LET instr == instructions[i]
             loopEnd == LoopEnd(instructions, i)
         IN  IF /\ instr.op = op_LABEL
                /\ Truthy(instr.result) /\ instr.result[1] = "L"
                /\ loopEnd # 0
                /\ HasIncrement(instructions, i, loopEnd)
             THEN loopOptimizationLoop(instructions, loopEnd + 1,
                      Append(optimizedInstructions, OptimizedLoop(instr)))
             ELSE loopOptimizationLoop(instructions, i + 1,
                      Append(optimizedInstructions, instr))

loopOptimization(instructions) ==
    loopOptimizationLoop(instructions, 1, << >>)

(* The four passes on func.instructions, each assigning its result to the  *)
(* field; no pass writes a field of an instruction object.                 *)
optimizeFunction(func) ==
    [func EXCEPT !.instructions =
        loopOptimization(commonSubexpressionElimination(
            deadCodeElimination(constantFolding(@))))]

(* optimizedFunctions holding the objects of the input Map themselves      *)
shareFunctions(n) == [k \in 1..n |-> k]

(* optimize on a store of function objects: the input Map holds the        *)
(* objects 1..n, the copying loop creates the objects n+1..2n, and         *)
(* copyFunctions gives the object each entry of optimizedFunctions holds.  *)
copyFunctions(n) == [k \in 1..n |-> n + k]

RECURSIVE optimizeFunctions(_, _, _)
optimizeFunctions(store, refs, k) ==
    IF k > Len(refs) THEN store
    ELSE optimizeFunctions(
             [store EXCEPT ![refs[k]] = optimizeFunction(@)], refs, k + 1)

(* functions is the input Map as optimize leaves it, optimizedFunctions    *)
(* the Map it returns.                                                     *)
optimize(functions) ==
    LET n == Len(functions)
        refs == copyFunctions(n)
        store == optimizeFunctions(
                     functions \o [k \in 1..n |->
                         [name |-> functions[k].name,
                          params |-> functions[k].params,
                          instructions |-> functions[k].instructions,
                          tempCount |-> functions[k].tempCount]],
                     refs, 1)
    IN  [functions |-> SubSeq(store, 1, n),
         optimizedFunctions |-> [k \in 1..n |-> store[refs[k]]]]

(***************************************************************************)
(* The code generator.  cg is a CodeGenerator instance: functions, the     *)
(* assembly lines, currentFunction, labelCounter, stackOffset, localVars   *)
(* and paramCount.  An instruction's translation is the list of lines it   *)
(* pushes on assembly; it writes no other field.                           *)
(***************************************************************************)
NewCodeGenerator(functions) ==
    [functions |-> functions, assembly |-> << >>, currentFunction |-> NullStr,
     labelCounter |-> 0, stackOffset |-> 0, localVars |-> EmptyMap,
     paramCount |-> 0]

(* `${n}` of an integer                                                    *)
intToString(n) == IF n < 0 THEN <<"-">> \o toString(-n) ELSE toString(n)

(* params.indexOf(operand)                                                 *)
indexOf(params, operand) ==
    IF \E k \in DOMAIN params : params[k] = operand
    THEN Min({ k \in DOMAIN params : params[k] = operand }) - 1
    ELSE -1

getOperandLocation(cg, operand) ==
    IF ~Truthy(operand) THEN << >>
    ELSE IF isNumeric(operand) THEN operand
    ELSE IF MapHas(cg.localVars, operand)
    THEN <<"[","e","b","p">> \o (IF cg.localVars[operand] >= 0 THEN <<"+">> ELSE << >>)
         \o intToString(cg.localVars[operand]) \o <<"]">>
    ELSE IF ~\E k \in DOMAIN cg.functions :
                cg.functions[k].name = cg.currentFunction
    THEN <<"[","e","b","p","+","N","a","N","]">>
    ELSE LET func == cg.functions[CHOOSE k \in DOMAIN cg.functions :
                         cg.functions[k].name = cg.currentFunction]
         IN  IF indexOf(func.params, operand) # -1
             THEN <<"[","e","b","p","+">>
                  \o intToString(8 + indexOf(func.params, operand) * 4)
                  \o <<"]">>
             ELSE operand

generateAssignment(cg, instr) ==
    LET dest == getOperandLocation(cg, instr.result)
        source == getOperandLocation(cg, instr.arg1)
    IN  IF source # << >> /\ source[1] = "["
        THEN << <<" "," "," "," ","m","o","v"," ","e","a","x",","," ">> \o source,
                <<" "," "," "," ","m","o","v"," ">> \o dest \o <<","," ","e","a","x">> >>
        ELSE << <<" "," "," "," ","m","o","v"," ">> \o dest \o <<","," ">> \o source >>

generateArithmetic(cg, instr) ==
    LET dest == getOperandLocation(cg, instr.result)
        left == getOperandLocation(cg, instr.arg1)
        right == getOperandLocation(cg, instr.arg2)
    IN  << <<" "," "," "," ","m","o","v"," ","e","a","x",","," ">> \o left >>
        \o (IF instr.op = <<"+">> THEN << <<" "," "," "," ","a","d","d"," ","e","a","x",","," ">> \o right >>
            ELSE IF instr.op = <<"-">> THEN << <<" "," "," "," ","s","u","b"," ","e","a","x",","," ">> \o right >>
            ELSE IF instr.op = <<"*">> THEN << <<" "," "," "," ","i","m","u","l"," ","e","a","x",","," ">> \o right >>
            ELSE IF instr.op = <<"/">>
            THEN << <<" "," "," "," ","c","d","q">>, <<" "," "," "," ","i","d","i","v"," ">> \o right >>
            ELSE << <<" "," "," "," ","c","d","q">>, <<" "," "," "," ","i","d","i","v"," ">> \o right,
                    <<" "," "," "," ","m","o","v"," ","e","a","x",","," ","e","d","x">> >>)
        \o << <<" "," "," "," ","m","o","v"," ">> \o dest \o <<","," ","e","a","x">> >>

generateConditionalJump(cg, instr) ==
    << <<" "," "," "," ","c","m","p"," ">> \o getOperandLocation(cg, instr.arg1) \o <<","," ","0">>,
       <<" "," "," "," ","j","e"," ">> \o InTemplate(instr.arg2) >>

generateParameter(cg, instr) ==
    << <<" "," "," "," ","p","u","s","h"," ">> \o getOperandLocation(cg, instr.arg1) >>

(* parseInt(text): the value of the digits text starts with, -1 standing   *)
(* for NaN when it starts with none                                        *)
parseInt(text) ==
    LET ends == { k \in 0..Len(text) :
                     \A j \in 1..k : text[j] \in Digit }
        last == CHOOSE k \in ends : \A j \in ends : j <= k
    IN  IF last = 0 THEN -1 ELSE Number(SubSeq(text, 1, last))

CodeGenerator_generateFunctionCall(cg, instr) ==
    LET argCount == parseInt(instr.arg2)
        result == getOperandLocation(cg, instr.result)
    IN  << <<" "," "," "," ","c","a","l","l"," ">> \o InTemplate(instr.arg1) >>
        \o (IF argCount > 0
            THEN << <<" "," "," "," ","a","d","d"," ","e","s","p",","," ">> \o intToString(argCount * 4) >>
            ELSE << >>)
        \o (IF result # << >>
            THEN << <<" "," "," "," ","m","o","v"," ">> \o result \o <<","," ","e","a","x">> >>
            ELSE << >>)

generateReturn(cg, instr) ==
    (IF Truthy(instr.arg1)
     THEN << <<" "," "," "," ","m","o","v"," ","e","a","x",","," ">> \o getOperandLocation(cg, instr.arg1) >>
     ELSE << >>)
    \o << <<" "," "," "," ","j","m","p"," ">> \o InTemplate(cg.currentFunction) \o <<"_","e","n","d">> >>

generateInstruction(cg, instr) ==
    (IF "label" \in DOMAIN instr /\ Truthy(instr.label)
     THEN << instr.label \o <<":">> >> ELSE << >>)
    \o (IF instr.op = op_LABEL THEN << InTemplate(instr.result) \o <<":">> >>
        ELSE IF instr.op = op_ASSIGN THEN generateAssignment(cg, instr)
        ELSE IF instr.op \in {<<"+">>, <<"-">>, <<"*">>, <<"/">>, <<"%">>}
        THEN generateArithmetic(cg, instr)
        ELSE IF instr.op = op_IF_FALSE THEN generateConditionalJump(cg, instr)
        ELSE IF instr.op = op_GOTO
        THEN << <<" "," "," "," ","j","m","p"," ">> \o InTemplate(instr.arg1) >>
        ELSE IF instr.op = op_PARAM THEN generateParameter(cg, instr)
        ELSE IF instr.op = op_CALL
        THEN CodeGenerator_generateFunctionCall(cg, instr)
        ELSE IF instr.op = op_RETURN THEN generateReturn(cg, instr)
        ELSE << >>)

(* allocateLocalVar(params[i], 8 + i * 4) for every parameter in turn      *)
RECURSIVE allocateLocalVar(_, _, _)
allocateLocalVar(localVars, params, k) ==
    IF k > Len(params) THEN localVars
    ELSE allocateLocalVar(MapSet(localVars, params[k], 8 + (k - 1) * 4),
                          params, k + 1)

RECURSIVE generateInstructions(_, _, _)
generateInstructions(cg, instructions, k) ==
    IF k > Len(instructions) THEN << >>
    ELSE generateInstruction(cg, instructions[k])
         \o generateInstructions(cg, instructions, k + 1)

CodeGenerator_generateFunction(cg, name, func) ==
    Let([cg EXCEPT !.currentFunction = name,
                   !.stackOffset = 0,
                   !.localVars = allocateLocalVar(EmptyMap, func.params, 1),
                   !.paramCount = Len(func.params)], LAMBDA cg1 :
    [cg1 EXCEPT !.assembly = @
        \o << <<";"," ","F","u","n","c","t","i","o","n",":"," ">> \o name,
              name \o <<":">>,
              <<" "," "," "," ","p","u","s","h"," ","e","b","p">>,
              <<" "," "," "," ","m","o","v"," ","e","b","p",","," ","e","s","p">> >>
        \o (IF func.tempCount * 4 > 0
            THEN << <<" "," "," "," ","s","u","b"," ","e","s","p",","," ">> \o intToString(func.tempCount * 4) >>
            ELSE << >>)
        \o generateInstructions(cg1, func.instructions, 1)
        \o << <<" "," "," "," ","m","o","v"," ","e","s","p",","," ","e","b","p">>,
              <<" "," "," "," ","p","o","p"," ","e","b","p">>,
              <<" "," "," "," ","r","e","t">>,
              << >> >>])

RECURSIVE CodeGenerator_generateFunctions(_, _)
CodeGenerator_generateFunctions(cg, k) ==
    IF k > Len(cg.functions) THEN cg
    ELSE CodeGenerator_generateFunctions(
             CodeGenerator_generateFunction(cg, cg.functions[k].name,
                                            cg.functions[k]),
             k + 1)

(* assembly.join('\n')                                                     *)
joinLines(lines) ==
    Concat([k \in DOMAIN lines |->
               IF k = 1 THEN lines[k] ELSE <<"\n">> \o lines[k]],
           1, Len(lines))

(* the lines generate pushes before the first function                     *)
DataAndTextSections ==
    << <<"s","e","c","t","i","o","n"," ",".","d","a","t","a">>,
       <<" "," "," "," ","f","o","r","m","a","t","_","i","n","t"," ","d","b"," ","\"","%","d","\"",","," ","1","0",","," ","0"," "," "," "," ",";"," ","F","o","r","m","a","t"," ","s","t","r","i","n","g"," ","f","o","r"," ","i","n","t","e","g","e","r","s">>,
       <<" "," "," "," ","f","o","r","m","a","t","_","f","l","o","a","t"," ","d","b"," ","\"","%","f","\"",","," ","1","0",","," ","0"," "," ",";"," ","F","o","r","m","a","t"," ","s","t","r","i","n","g"," ","f","o","r"," ","f","l","o","a","t","s">>,
       <<" "," "," "," ","f","o","r","m","a","t","_","s","t","r","i","n","g"," ","d","b"," ","\"","%","s","\"",","," ","1","0",","," ","0"," ",";"," ","F","o","r","m","a","t"," ","s","t","r","i","n","g"," ","f","o","r"," ","s","t","r","i","n","g","s">>,
       << >>,
       <<"s","e","c","t","i","o","n"," ",".","t","e","x","t">>,
       <<" "," "," "," ","g","l","o","b","a","l"," ","m","a","i","n">>,
       <<" "," "," "," ","e","x","t","e","r","n"," ","p","r","i","n","t","f">>,
       <<" "," "," "," ","e","x","t","e","r","n"," ","s","c","a","n","f">>,
       << >> >>

(* generate without its first statement, this.assembly = []                *)
CodeGenerator_generateAppending(cg) ==
    Let(CodeGenerator_generateFunctions(
            [cg EXCEPT !.assembly = @ \o DataAndTextSections], 1), LAMBDA cg1 :
    [cg |-> cg1, text |-> joinLines(cg1.assembly)])

(* generate() on the instance cg: the instance it leaves and the text it   *)
(* returns.                                                                *)
CodeGenerator_generate(cg) ==
    Let(CodeGenerator_generateFunctions(
            [cg EXCEPT !.assembly = DataAndTextSections], 1), LAMBDA cg1 :
    [cg |-> cg1, text |-> joinLines(cg1.assembly)])

(***************************************************************************)
(* The scoped semantic analyzer (the class with currentScope).  Its tables *)
(* are objects used as maps: symbolTable from a scope to the list of the   *)
(* symbols added in it, functionTable from a name to the function's info;  *)
(* the names of the inputs are none of Object.prototype's properties.  A   *)
(* type is a text and NullStr where the code has null.  Date.now() is read *)
(* from a clock owned by the environment: st.ticks holds the numbers of    *)
(* the reads before which the clock has advanced, and a read gives the     *)
(* milliseconds since analyze was called.  st.threw is TRUE once a         *)
(* TypeError has been thrown.  A diagnostic is a record of the parts of    *)
(* its message.                                                            *)
(***************************************************************************)
str_global == <<"g","l","o","b","a","l">>
str_string == <<"s","t","r","i","n","g">>

Date_now(st) == Cardinality({ j \in st.ticks : j <= st.reads + 1 })

ListOf(m, k) == IF MapHas(m, k) THEN m[k] ELSE << >>

Typed(st, type) == [st |-> st, type |-> type]

convertToSymbolType(typeStr) ==
    IF typeStr \in {str_int, str_float, str_double, str_char, str_void}
    THEN typeStr ELSE str_int

inferLiteralType(value) ==
    IF value # << >> /\ value[1] = "\"" THEN str_string
    ELSE IF \E k \in DOMAIN value : value[k] \in {".", "e", "E"} THEN str_float
    ELSE str_int

isNumericType(type) == type \in {str_int, str_float, str_double}

getWiderType(type1, type2) ==
    IF type1 = str_double \/ type2 = str_double THEN str_double
    ELSE IF type1 = str_float \/ type2 = str_float THEN str_float
    ELSE str_int

addSymbol(st, symbolInfo) ==
    [st EXCEPT !.symbolTable =
        MapSet(@, st.currentScope, Append(ListOf(@, st.currentScope), symbolInfo))]

(* the first index of a symbol of that name in the list, 0 when none       *)
FindIndex(symbols, name) ==
    IF \E k \in DOMAIN symbols : symbols[k].name = name
    THEN Min({ k \in DOMAIN symbols : symbols[k].name = name })
    ELSE 0

(* findSymbol: the place of the symbol found, scope and index in the list  *)
(* of the scope; index 0 when the result is null.                          *)
findSymbol(st, name) ==
    LET here == FindIndex(ListOf(st.symbolTable, st.currentScope), name)
        glob == FindIndex(ListOf(st.symbolTable, str_global), name)
    IN  IF here # 0 THEN [scope |-> st.currentScope, index |-> here]
        ELSE IF st.currentScope # str_global /\ glob # 0
        THEN [scope |-> str_global, index |-> glob]
        ELSE [scope |-> str_global, index |-> 0]

isSymbolDeclaredInCurrentScope(st, name) ==
    FindIndex(ListOf(st.symbolTable, st.currentScope), name) # 0

RECURSIVE Scoped_analyzeStatement(_, _), Scoped_analyzeStatements(_, _, _),
          Scoped_analyzeExpression(_, _), checkArgumentTypes(_, _, _, _),
          Scoped_analyzeDeclarators(_, _, _, _), hasReturnStatement(_, _)

Scoped_analyzeAssignmentExpression(st, expr) ==
    IF IsNull(expr.left) THEN Typed([st EXCEPT !.threw = TRUE], NullStr)
    ELSE IF expr.left.type # "Identifier"
    THEN Typed(PushError(st, [msg |-> "Left side of assignment must be a variable"]),
               NullStr)
    ELSE
    Let(findSymbol(st, expr.left.name), LAMBDA at :
    IF at.index = 0
    THEN Typed(PushError(st, [msg |-> "Variable is not declared",
                              name |-> expr.left.name]), NullStr)
    ELSE
    Let(st.symbolTable[at.scope][at.index], LAMBDA varInfo :
    Let(Scoped_analyzeExpression(
            [st EXCEPT !.symbolTable[at.scope][at.index].isInitialized = TRUE],
            expr.right), LAMBDA r :
        Typed(IF ~r.st.threw /\ r.type # NullStr /\ r.type # varInfo.type
              THEN PushError(r.st, [msg |-> "Cannot assign value to variable",
                                    valueType |-> r.type, type |-> varInfo.type])
              ELSE r.st,
              varInfo.type))))

Scoped_analyzeBinaryExpression(st, expr) ==
    Let(Scoped_analyzeExpression(st, expr.left), LAMBDA l :
    Let(Scoped_analyzeExpression(l.st, expr.right), LAMBDA r :
    IF r.st.threw \/ l.type = NullStr \/ r.type = NullStr THEN Typed(r.st, NullStr)
    ELSE IF expr.operator \in { <<"*">>, <<"/">>, <<"%">>, <<"+">>, <<"-">> }
    THEN IF l.type = str_string /\ expr.operator = <<"+">> /\ r.type = str_string
         THEN Typed(r.st, str_string)
         ELSE IF ~isNumericType(l.type) \/ ~isNumericType(r.type)
         THEN Typed(PushError(r.st, [msg |-> "Operator cannot be applied to types",
                                     operator |-> expr.operator,
                                     left |-> l.type, right |-> r.type]), NullStr)
         ELSE Typed(r.st, getWiderType(l.type, r.type))
    ELSE IF expr.operator \in { <<"<">>, <<">">>, <<"<","=">>, <<">","=">>,
                                <<"=","=">>, <<"!","=">> }
    THEN Typed(IF l.type # r.type
                  /\ ~(isNumericType(l.type) /\ isNumericType(r.type))
               THEN PushError(r.st, [msg |-> "Cannot compare values of types",
                                     left |-> l.type, right |-> r.type])
               ELSE r.st,
               str_int)
    ELSE Typed(r.st, NullStr)))

Scoped_analyzeIdentifier(st, expr) ==
    Let(findSymbol(st, expr.name), LAMBDA at :
    IF at.index = 0
    THEN Typed(PushError(st, [msg |-> "Variable is not declared",
                              name |-> expr.name]), NullStr)
    ELSE Let(st.symbolTable[at.scope][at.index], LAMBDA varInfo :
         Typed(IF ~varInfo.isInitialized
               THEN PushError(st, [msg |-> "Variable is used before initialization",
                                   name |-> expr.name])
               ELSE st,
               varInfo.type)))

(* for (let i = 0; i < expr.arguments.length; i++) of analyzeFunctionCall  *)
checkArgumentTypes(st, expr, funcInfo, i) ==
    IF st.threw \/ i > Len(expr.arguments) THEN st
    ELSE Let(Scoped_analyzeExpression(st, expr.arguments[i]), LAMBDA a :
         checkArgumentTypes(
             IF ~a.st.threw /\ a.type # NullStr
                /\ a.type # funcInfo.parameters[i].type
             THEN PushError(a.st, [msg |-> "Argument of function should be of type",
                                   argument |-> i, name |-> expr.name,
                                   type |-> funcInfo.parameters[i].type,
                                   got |-> a.type])
             ELSE a.st,
             expr, funcInfo, i + 1))

Scoped_analyzeFunctionCall(st, expr) ==
    IF ~MapHas(st.functionTable, expr.name)
    THEN IF expr.name = str_printf THEN Typed(st, str_int)
         ELSE Typed(PushError(st, [msg |-> "Function is not declared",
                                   name |-> expr.name]), NullStr)
    ELSE Let(st.functionTable[expr.name], LAMBDA funcInfo :
         Typed(IF Len(expr.arguments) # Len(funcInfo.parameters)
               THEN PushError(st, [msg |-> "Function expects arguments",
                                   name |-> expr.name,
                                   expects |-> Len(funcInfo.parameters),
                                   got |-> Len(expr.arguments)])
               ELSE checkArgumentTypes(st, expr, funcInfo, 1),
               funcInfo.returnType))

Scoped_analyzeUnaryExpression(st, expr) ==
    Let(Scoped_analyzeExpression(st, expr.argument), LAMBDA a :
    IF a.st.threw \/ a.type = NullStr THEN Typed(a.st, NullStr)
    ELSE IF ~isNumericType(a.type)
    THEN Typed(PushError(a.st, [msg |-> "Operator cannot be applied to type",
                                operator |-> expr.operator, type |-> a.type]),
               NullStr)
    ELSE a)

Scoped_analyzeExpression(st, expr) ==
    IF st.threw \/ IsNull(expr) THEN Typed(st, NullStr)
    ELSE CASE expr.type = "AssignmentExpression" ->
                  Scoped_analyzeAssignmentExpression(st, expr)
           [] expr.type = "BinaryExpression" ->
                  Scoped_analyzeBinaryExpression(st, expr)
           [] expr.type = "Identifier" -> Scoped_analyzeIdentifier(st, expr)
           [] expr.type = "Literal" -> Typed(st, inferLiteralType(expr.value))
           [] expr.type = "FunctionCall" -> Scoped_analyzeFunctionCall(st, expr)
           [] expr.type \in {"PrefixExpression", "PostfixExpression"} ->
                  Scoped_analyzeUnaryExpression(st, expr)
           [] OTHER -> Typed(st, NullStr)

(* for (const variable of node.variables) of analyzeDeclaration            *)
Scoped_analyzeDeclarators(st, node, variables, k) ==
    IF st.threw \/ k > Len(variables) THEN st
    ELSE
    Let(variables[k], LAMBDA variable :
    Let([name |-> variable.name, type |-> convertToSymbolType(node.varType),
         scope |-> st.currentScope,
         isInitialized |-> ~IsNull(variable.initializer)], LAMBDA symbolInfo :
    Let(IF isSymbolDeclaredInCurrentScope(st, symbolInfo.name)
        THEN PushError(st, [msg |-> "Variable is already declared in this scope",
                            name |-> symbolInfo.name])
        ELSE addSymbol(st, symbolInfo), LAMBDA s1 :
    Let(Scoped_analyzeExpression(s1, variable.initializer), LAMBDA i :
    Scoped_analyzeDeclarators(
        IF ~i.st.threw /\ i.type # NullStr /\ i.type # symbolInfo.type
        THEN PushError(i.st, [msg |-> "Cannot initialize variable with value",
                              type |-> symbolInfo.type, valueType |-> i.type])
        ELSE i.st,
        node, variables, k + 1)))))

Scoped_analyzeDeclaration(st, node) ==
    Scoped_analyzeDeclarators(st, node, node.variables, 1)

Scoped_analyzeReturnStatement(st, node) ==
    IF ~MapHas(st.functionTable, st.currentScope)
    THEN PushError(st, [msg |-> "Return statement outside of function"])
    ELSE
    Let(st.functionTable[st.currentScope], LAMBDA functionInfo :
    IF IsNull(node.expression)
    THEN IF functionInfo.returnType # str_void
         THEN PushError(st, [msg |-> "Function must return a value of type",
                             name |-> functionInfo.name,
                             type |-> functionInfo.returnType])
         ELSE st
    ELSE Let(Scoped_analyzeExpression(st, node.expression), LAMBDA e :
         IF ~e.st.threw /\ e.type # NullStr /\ e.type # functionInfo.returnType
         THEN PushError(e.st, [msg |-> "Function should return",
                               name |-> functionInfo.name,
                               type |-> functionInfo.returnType, got |-> e.type])
         ELSE e.st))

Scoped_analyzeStatements(st, body, k) ==
    IF st.threw \/ k > Len(body) THEN st
    ELSE Scoped_analyzeStatements(Scoped_analyzeStatement(st, body[k]), body, k + 1)

Scoped_analyzeCompoundStatement(st, node) ==
    IF "body" \notin DOMAIN node THEN st
    ELSE Scoped_analyzeStatements(st, node.body, 1)

Scoped_analyzeIfStatement(st, node) ==
    Let(Scoped_analyzeExpression(st, node.condition).st, LAMBDA s1 :
    Let(Scoped_analyzeStatement(s1, node.then), LAMBDA s2 :
        Scoped_analyzeStatement(s2, node.else)))

(* the scope entered: the scope left, the infix and the time now           *)
EnterScope(st, infix) ==
    [st EXCEPT !.currentScope = @ \o infix \o toString(Date_now(st)),
               !.reads = @ + 1]

LeaveScope(st, oldScope) ==
    IF st.threw THEN st ELSE [st EXCEPT !.currentScope = oldScope]

Scoped_analyzeForStatement(st, node) ==
    Let(EnterScope(st, <<".","f","o","r">>), LAMBDA s0 :
    Let(IF IsNull(node.initialization) THEN s0
        ELSE IF node.initialization.type = "DeclarationStatement"
        THEN Scoped_analyzeDeclaration(s0, node.initialization)
        ELSE Scoped_analyzeExpression(s0, node.initialization).st, LAMBDA s1 :
    Let(Scoped_analyzeExpression(s1, node.condition).st, LAMBDA s2 :
    Let(Scoped_analyzeExpression(s2, node.increment).st, LAMBDA s3 :
        LeaveScope(Scoped_analyzeStatement(s3, node.body), st.currentScope)))))

Scoped_analyzeStatement(st, stmt) ==
    IF st.threw \/ IsNull(stmt) THEN st
    ELSE CASE stmt.type = "DeclarationStatement" ->
                  Scoped_analyzeDeclaration(st, stmt)
           [] stmt.type = "ExpressionStatement" ->
                  Scoped_analyzeExpression(st, stmt.expression).st
           [] stmt.type = "ReturnStatement" ->
                  Scoped_analyzeReturnStatement(st, stmt)
           [] stmt.type = "IfStatement" -> Scoped_analyzeIfStatement(st, stmt)
           [] stmt.type = "ForStatement" -> Scoped_analyzeForStatement(st, stmt)
           [] stmt.type = "CompoundStatement" ->
                  LeaveScope(Scoped_analyzeCompoundStatement(
                                 EnterScope(st, <<".","b","l","o","c","k">>), stmt),
                             st.currentScope)
           [] OTHER -> st

(* the loop of hasReturnStatement over node.body from its k-th statement   *)
hasReturnStatement(body, k) ==
    IF k > Len(body) THEN FALSE
    ELSE Let(body[k], LAMBDA stmt :
         IF stmt.type = "ReturnStatement" THEN TRUE
         ELSE IF stmt.type = "CompoundStatement" /\ hasReturnStatement(stmt.body, 1)
         THEN TRUE
         ELSE IF /\ stmt.type = "IfStatement"
                 /\ ~IsNull(stmt.then) /\ hasReturnStatement(<<stmt.then>>, 1)
                 /\ ~IsNull(stmt.else) /\ hasReturnStatement(<<stmt.else>>, 1)
         THEN TRUE
         ELSE hasReturnStatement(body, k + 1))

(* funcNode.parameters.map(...): every parameter is added to the scope of  *)
(* the function and collected for the function's info.                     *)
RECURSIVE addParameters(_, _, _, _)
addParameters(st, parameters, k, params) ==
    IF k > Len(parameters) THEN [st |-> st, params |-> params]
    ELSE Let([name |-> parameters[k].paramName,
              type |-> convertToSymbolType(parameters[k].paramType),
              scope |-> st.currentScope, isInitialized |-> TRUE], LAMBDA symbolInfo :
         addParameters(addSymbol(st, symbolInfo), parameters, k + 1,
                       Append(params, symbolInfo)))

Scoped_analyzeFunction(st, funcNode) ==
    Let(convertToSymbolType(funcNode.returnType), LAMBDA returnType :
    Let(addParameters([st EXCEPT !.currentScope = funcNode.name],
                      funcNode.parameters, 1, << >>), LAMBDA p :
    Let([p.st EXCEPT !.functionTable =
            MapSet(@, funcNode.name,
                   [name |-> funcNode.name, returnType |-> returnType,
                    parameters |-> p.params, isDefined |-> TRUE])], LAMBDA s1 :
    Let(IF funcNode.body.type = "CompoundStatement"
        THEN Scoped_analyzeCompoundStatement(s1, funcNode.body) ELSE s1, LAMBDA s2 :
    IF s2.threw THEN s2
    ELSE Let(IF /\ returnType # str_void
                /\ ~( /\ "body" \in DOMAIN funcNode.body
                      /\ hasReturnStatement(funcNode.body.body, 1) )
             THEN PushError(s2, [msg |-> "Function must return a value of type",
                                 name |-> funcNode.name, type |-> returnType])
             ELSE s2, LAMBDA s3 :
         [s3 EXCEPT !.currentScope = str_global])))))

RECURSIVE analyzeProgram(_, _, _)
analyzeProgram(st, body, k) ==
    IF st.threw \/ k > Len(body) THEN st
    ELSE analyzeProgram(IF body[k].type = "FunctionDeclaration"
                        THEN Scoped_analyzeFunction(st, body[k]) ELSE st,
                        body, k + 1)

(* reset() and the analysis of the program while the clock ticks as given  *)
Scoped_analyze(tree, ticks) ==
    Let([symbolTable |-> EmptyMap, functionTable |-> EmptyMap,
         currentScope |-> str_global, errors |-> << >>,
         reads |-> 0, ticks |-> ticks, threw |-> FALSE], LAMBDA s0 :
        IF tree.type = "Program" THEN analyzeProgram(s0, tree.body, 1) ELSE s0)

(***************************************************************************)
(* The pipeline: each action is one call of a stage on the artifact of the *)
(* stage before.  parse that never returns leaves pc at "parse_hung"; a    *)
(* stage that throws leaves pc at its "_threw" value.                      *)
(***************************************************************************)
NoAnalysis == [symbolTable |-> EmptyMap, functionTable |-> EmptyMap,
               errors |-> << >>]

Tokenize ==
    /\ pc = "source"
    /\ tokens' = tokenize(src)
    /\ pc' = "tokens"
    /\ UNCHANGED <<src, ast, sem, ir, optIn, opt, asm, scoped>>

Parse ==
    /\ pc = "tokens"
    /\ Let(parse(tokens), LAMBDA r :
           /\ ast' = r.node
           /\ pc' = IF r.hung THEN "parse_hung" ELSE "ast")
    /\ UNCHANGED <<src, tokens, sem, ir, optIn, opt, asm, scoped>>

Analyze ==
    /\ pc = "ast"
    /\ Let(analyze(ast), LAMBDA a :
           /\ sem' = IF a.threw THEN NoAnalysis
                     ELSE [symbolTable |-> a.globalSymbolTable,
                           functionTable |-> a.functionTable,
                           errors |-> a.errors]
           /\ pc' = IF a.threw THEN "analyze_threw" ELSE "analyzed")
    /\ UNCHANGED <<src, tokens, ast, ir, optIn, opt, asm, scoped>>

Generate ==
    /\ pc = "analyzed"
    /\ Let(generate(ast), LAMBDA g :
           /\ ir' = g.functions
           /\ pc' = IF g.threw THEN "generate_threw" ELSE "ir")
    /\ UNCHANGED <<src, tokens, ast, sem, optIn, opt, asm, scoped>>

(* The optimization handler regenerates the intermediate code from the     *)
(* same tree, which is ir again, and runs a new CodeOptimizer on it: optIn *)
(* is the Map it was given as optimize leaves it, opt the Map returned.    *)
Optimize ==
    /\ pc = "ir"
    /\ Let(optimize(ir), LAMBDA o :
           /\ optIn' = o.functions
           /\ opt' = o.optimizedFunctions)
    /\ pc' = "optimized"
    /\ UNCHANGED <<src, tokens, ast, sem, ir, asm, scoped>>

(* The assembly handler refuses while the optimized listing names no       *)
(* function, and otherwise runs generate on a new CodeGenerator.           *)
GenerateAssembly ==
    /\ pc = "optimized"
    /\ IF opt = << >>
       THEN asm' = asm /\ pc' = "assembly_refused"
       ELSE Let(CodeGenerator_generate(NewCodeGenerator(opt)), LAMBDA r :
                asm' = r.text /\ pc' = "assembly")
    /\ UNCHANGED <<src, tokens, ast, sem, ir, optIn, opt, scoped>>

(* The scoped analyzer is wired to no later stage: a call of its analyze   *)
(* on the tree, while the clock advances before any of the first           *)
(* MaxClockReads reads of it.                                              *)
MaxClockReads == 2

AnalyzeScoped ==
    /\ pc = "ast"
    /\ \E ticks \in SUBSET (1..MaxClockReads) :
          Let(Scoped_analyze(ast, ticks), LAMBDA a :
              /\ scoped' = IF a.threw THEN NoAnalysis
                           ELSE [symbolTable |-> a.symbolTable,
                                 functionTable |-> a.functionTable,
                                 errors |-> a.errors]
              /\ pc' = IF a.threw THEN "scoped_threw" ELSE "scoped")
    /\ UNCHANGED <<src, tokens, ast, sem, ir, optIn, opt, asm>>

(* The trees of the source after an edit that keeps it a program: the      *)
(* tree itself, the tree without its last top-level node, and the tree     *)
(* without the last statement of its last function.                        *)
EditedTrees(tree) ==
    IF tree.type # "Program" THEN {tree}
    ELSE {tree}
         \cup (IF tree.body = << >> THEN {}
               ELSE { [tree EXCEPT !.body = SubSeq(@, 1, Len(@) - 1)] })
         \cup (IF /\ tree.body # << >>
                  /\ tree.body[Len(tree.body)].type = "FunctionDeclaration"
                  /\ tree.body[Len(tree.body)].body.type = "CompoundStatement"
                  /\ tree.body[Len(tree.body)].body.body # << >>
               THEN { [tree EXCEPT !.body[Len(tree.body)].body.body =
                                       SubSeq(@, 1, Len(@) - 1)] }
               ELSE {})

(* The copying loop of optimize on an optimizedFunctions that has entries: *)
(* every function of the input is set under its name.                      *)
RECURSIVE copyInto(_, _, _)
copyInto(optimizedFunctions, functions, k) ==
    IF k > Len(functions) THEN optimizedFunctions
    ELSE copyInto(FunctionsSet(optimizedFunctions, functions[k]),
                  functions, k + 1)

(* optimize on a CodeOptimizer whose optimizedFunctions holds the entries  *)
(* of an earlier call: the copies are set into it and every entry of it,   *)
(* copied now or left from before, is optimized.                           *)
optimizeAgain(functions, optimizedFunctions) ==
    Let(copyInto(optimizedFunctions, functions, 1), LAMBDA copied :
        [k \in DOMAIN copied |-> optimizeFunction(copied[k])])

(* generate called once more on the IntermediateCodeGenerator that         *)
(* returned ir, with the tree of the source as it is or edited.  generate  *)
(* clears and refills this.functions and returns it, and ir is that Map.   *)
GenerateAgain ==
    /\ pc = "ir"
    /\ \E tree \in EditedTrees(ast) :
           ir' = generate(tree).functions
    /\ pc' = "ir_again"
    /\ UNCHANGED <<src, tokens, ast, sem, optIn, opt, asm, scoped>>

(* optimize called once more on the CodeOptimizer that returned opt.  Its  *)
(* input is the Map of the generator that made it, as it was or as a       *)
(* further generate call of that generator on an edited tree left it.      *)
OptimizeAgain ==
    /\ pc = "optimized"
    /\ \E tree \in EditedTrees(ast) :
           Let(generate(tree).functions, LAMBDA functions :
               /\ optIn' = functions
               /\ opt' = optimizeAgain(functions, opt))
    /\ pc' = "optimized_again"
    /\ UNCHANGED <<src, tokens, ast, sem, ir, asm, scoped>>

Next ==
    \/ Tokenize \/ Parse \/ Analyze \/ Generate \/ Optimize \/ GenerateAssembly
    \/ AnalyzeScoped \/ GenerateAgain \/ OptimizeAgain

(***************************************************************************)
(* Inputs.  A source text is either any short text over LexAlphabet or a   *)
(* list of lexemes written one per line.                                   *)
(***************************************************************************)
MaxSrcLen == 4
MaxFrag == 3
MaxStmts == 3
MaxGenStmts == 3

SeqsUpTo(S, n) == UNION { [1..k -> S] : k \in 0..n }

Flatten(ss) == Concat(ss, 1, Len(ss))

(* The lexemes written one per line.                                       *)
Join(lexemes) ==
    Concat([k \in DOMAIN lexemes |->
               IF k = 1 THEN lexemes[k] ELSE <<"\n">> \o lexemes[k]],
           1, Len(lexemes))

InitWith(sources) ==
    /\ src \in sources
    /\ tokens = << >>
    /\ ast = Null
    /\ sem = NoAnalysis
    /\ scoped = NoAnalysis
    /\ ir = << >>
    /\ optIn = << >>
    /\ opt = << >>
    /\ asm = << >>
    /\ pc = "source"

LexAlphabet == {"a", "1", " ", "\n", "/", "*", "=", "\"", "\\", "#"}
LexSources == SeqsUpTo(LexAlphabet, MaxSrcLen)

Init == InitWith(LexSources)
Spec == Init /\ [][Next]_vars

(* Token sequences for the parser: the header of a function definition    *)
(* followed by up to MaxFrag fragments, well formed or not.                *)
FunctionHeader == << str_int, <<"f">>, <<"(">>, <<")">>, <<"{">> >>
ParseFragments ==
    { << str_if, <<"(">>, <<"x">>, <<")">> >>,
      << str_for >>,
      << str_for, <<"(">>, <<";">>, <<";">>, <<")">> >>,
      << <<"f">>, <<"(">> >>,
      << <<"x">> >>,
      << <<";">> >>,
      << <<",">> >>,
      << <<")">> >>,
      << <<"{">> >>,
      << <<"}">> >>,
      << str_int, <<"x">> >>,
      << str_else >> }
ParseSources ==
    { Join(FunctionHeader \o Flatten(b)) : b \in SeqsUpTo(ParseFragments, MaxFrag) }

InitParse == InitWith(ParseSources)
SpecParse == InitParse /\ [][Next]_vars

(***************************************************************************)
(* C1: tokenize returns for every text, every step of its scanning loop    *)
(* moves forward, and every character of the text that is not white space  *)
(* occurs in the value of one of the tokens returned.                      *)
(***************************************************************************)
OccursInSomeToken(c, toks) ==
    \E k \in DOMAIN toks : \E j \in DOMAIN toks[k].value : toks[k].value[j] = c

ScanAdvances(text) ==
    LET lines == splitLines(text)
    IN  \A n \in DOMAIN lines : \A i \in DOMAIN lines[n] :
           lines[n][i] \notin WhiteSpace => scanToken(lines[n], i).next > i

TokenizeTotal ==
    pc # "source" =>
       /\ ScanAdvances(replaceBlockComments(src).text)
       /\ \A i \in DOMAIN src :
             src[i] \notin WhiteSpace => OccursInSomeToken(src[i], tokens)

TokenizeTotalWitness ==
    /\ pc = "tokens"
    /\ \E k \in DOMAIN tokens : tokens[k].type = "UNDEFINED"
    /\ \E k \in DOMAIN tokens : tokens[k].type = "OPERATOR" /\ Len(tokens[k].value) = 2
    /\ \E i \in DOMAIN src : src[i] \in WhiteSpace

(***************************************************************************)
(* C2: parse terminates on every token sequence: no loop of a production   *)
(* repeats an iteration that leaves the cursor where it was.               *)
(***************************************************************************)
ParseTerminates == pc # "parse_hung"

(***************************************************************************)
(* C3: when the input ends inside the body of a function definition (the   *)
(* body's closing brace is missing), parse returns a parse error and not a *)
(* Program tree.                                                           *)
(***************************************************************************)
RECURSIVE BraceDepth(_, _)
BraceDepth(toks, k) ==
    IF k = 0 THEN 0
    ELSE BraceDepth(toks, k - 1)
         + (IF toks[k].type = "OPEN_BRACE" THEN 1
            ELSE IF toks[k].type = "CLOSE_BRACE" THEN -1 ELSE 0)

EndsInsideFunctionBody(toks) ==
    /\ Len(toks) >= 5
    /\ isTypeSpecifier(toks[1])
    /\ toks[2].type = "IDENTIFIER"
    /\ toks[3].type = "OPEN_PAREN"
    /\ toks[4].type = "CLOSE_PAREN"
    /\ toks[5].type = "OPEN_BRACE"
    /\ \A k \in 5..Len(toks) : BraceDepth(toks, k) >= 1

TruncatedInputIsParseError ==
    (pc = "ast" /\ EndsInsideFunctionBody(tokens)) => HasError(ast)

(***************************************************************************)
(* C4: the value parse returns is a parse error or a tree none of whose    *)
(* nodes or fields is an error-carrying object.                            *)
(***************************************************************************)
RECURSIVE ErrFree(_)
ErrFree(n) ==
    /\ ~HasError(n)
    /\ CASE n.type = "Program" -> \A k \in DOMAIN n.body : ErrFree(n.body[k])
         [] n.type = "FunctionDeclaration" -> ErrFree(n.body)
         [] n.type = "CompoundStatement" -> \A k \in DOMAIN n.body : ErrFree(n.body[k])
         [] n.type = "IfStatement" ->
                ErrFree(n.condition) /\ ErrFree(n.then) /\ ErrFree(n.else)
         [] n.type = "ForStatement" ->
                /\ ErrFree(n.initialization)
                /\ ErrFree(n.condition)
                /\ ErrFree(n.increment)
                /\ ErrFree(n.body)
         [] n.type = "DeclarationStatement" ->
                \A k \in DOMAIN n.variables : ErrFree(n.variables[k].initializer)
         [] n.type \in {"ExpressionStatement", "ReturnStatement"} ->
                ErrFree(n.expression)
         [] n.type \in {"AssignmentExpression", "BinaryExpression"} ->
                ErrFree(n.left) /\ ErrFree(n.right)
         [] n.type \in {"PrefixExpression", "PostfixExpression"} ->
                ErrFree(n.argument)
         [] n.type = "FunctionCall" ->
                \A k \in DOMAIN n.arguments : ErrFree(n.arguments[k])
         [] OTHER -> TRUE

ErrorsShortCircuit == pc = "ast" => (HasError(ast) \/ ErrFree(ast))

(* Programs for the analyzer: function f with one parameter p and a body   *)
(* of up to MaxStmts statements, with the two-parameter function g defined *)
(* before f or after f.                                                    *)
GDefinition ==
    << str_int, <<"g">>, <<"(">>, str_int, <<"a">>, <<",">>, str_int, <<"b">>, <<")">>,
       <<"{">>, str_return, <<"a">>, <<";">>, <<"}">> >>
FHeader == << str_int, <<"f">>, <<"(">>, str_int, <<"p">>, <<")">>, <<"{">> >>
SemStatements ==
    { << str_int, <<"a">>, <<"=">>, <<"1">>, <<";">> >>,
      << str_int, <<"a">>, <<"=">>, <<"2">>, <<";">> >>,
      << str_char, <<"a">>, <<"=">>, <<"c">>, <<";">> >>,
      << str_char, <<"p">>, <<";">> >>,
      << str_return, <<"a">>, <<";">> >>,
      << <<"g">>, <<"(">>, <<"p">>, <<")">>, <<";">> >>,
      << <<"g">>, <<"(">>, <<"p">>, <<",">>, <<"p">>, <<")">>, <<";">> >>,
      << str_printf, <<"(">>, <<"p">>, <<",">>, <<"p">>, <<")">>, <<";">> >>,
      << <<"=">>, <<"5">>, <<";">> >>,
      << <<"1">>, <<"=">>, <<"2">>, <<";">> >>,
      << str_for, <<"(">>, <<"g">>, <<"(">>, <<"p">>, <<")">>, <<";">>, <<";">>,
         <<")">>, <<";">> >> }
SemSources ==
    UNION { { Join(GDefinition \o FHeader \o Flatten(b) \o << <<"}">> >>),
              Join(FHeader \o Flatten(b) \o << <<"}">> >> \o GDefinition) }
            : b \in SeqsUpTo(SemStatements, MaxStmts) }

InitSem == InitWith(SemSources)
SpecSem == InitSem /\ [][Next]_vars

(***************************************************************************)
(* What the tree says, for the properties of the analyzer: the functions   *)
(* of a program, the declarators of a statement in the order of the walk,  *)
(* and the calls that occur anywhere in a statement or expression.         *)
(***************************************************************************)
FunctionIndexes(tree) ==
    { k \in DOMAIN tree.body : /\ tree.body[k].type = "FunctionDeclaration"
                               /\ tree.body[k].body.type = "CompoundStatement" }

RECURSIVE DeclaratorsOf(_), DeclaratorsOfAll(_, _)
DeclaratorsOfAll(stmts, k) ==
    IF k > Len(stmts) THEN << >>
    ELSE DeclaratorsOf(stmts[k]) \o DeclaratorsOfAll(stmts, k + 1)

DeclaratorsOf(stmt) ==
    CASE stmt.type = "DeclarationStatement" ->
            [k \in DOMAIN stmt.variables |->
                [name |-> stmt.variables[k].name, varType |-> stmt.varType,
                 initializer |-> stmt.variables[k].initializer]]
      [] stmt.type = "CompoundStatement" -> DeclaratorsOfAll(stmt.body, 1)
      [] stmt.type = "IfStatement" -> DeclaratorsOf(stmt.then) \o DeclaratorsOf(stmt.else)
      [] stmt.type = "ForStatement" ->
            DeclaratorsOf(stmt.initialization) \o DeclaratorsOf(stmt.body)
      [] OTHER -> << >>

RECURSIVE CallsOf(_), CallsOfAll(_, _)
CallsOfAll(nodes, k) ==
    IF k > Len(nodes) THEN << >>
    ELSE CallsOf(nodes[k]) \o CallsOfAll(nodes, k + 1)

CallsOf(n) ==
    CASE n.type = "FunctionCall" ->
            << [name |-> n.name, got |-> Len(n.arguments)] >>
            \o CallsOfAll(n.arguments, 1)
      [] n.type \in {"AssignmentExpression", "BinaryExpression"} ->
            CallsOf(n.left) \o CallsOf(n.right)
      [] n.type \in {"PrefixExpression", "PostfixExpression"} -> CallsOf(n.argument)
      [] n.type \in {"ExpressionStatement", "ReturnStatement"} -> CallsOf(n.expression)
      [] n.type = "DeclarationStatement" ->
            CallsOfAll([k \in DOMAIN n.variables |-> n.variables[k].initializer], 1)
      [] n.type = "CompoundStatement" -> CallsOfAll(n.body, 1)
      [] n.type = "IfStatement" ->
            CallsOf(n.condition) \o CallsOf(n.then) \o CallsOf(n.else)
      [] n.type = "ForStatement" ->
            CallsOf(n.initialization) \o CallsOf(n.condition)
            \o CallsOf(n.increment) \o CallsOf(n.body)
      [] OTHER -> << >>

Count(seq, x) == Cardinality({ i \in DOMAIN seq : seq[i] = x })

RECURSIVE SumOver(_, _)
SumOver(f, S) ==
    IF S = {} THEN 0
    ELSE LET x == CHOOSE x \in S : TRUE IN f[x] + SumOver(f, S \ {x})

ParamNameSet(fn) == { fn.parameters[k].paramName : k \in DOMAIN fn.parameters }

SourceNames(tree) ==
    UNION { ParamNameSet(tree.body[k])
            \cup { DeclaratorsOf(tree.body[k].body)[j].name
                   : j \in DOMAIN DeclaratorsOf(tree.body[k].body) }
            : k \in FunctionIndexes(tree) }

(***************************************************************************)
(* C5: analyze returns a result, without throwing, for every tree that     *)
(* parse returns.                                                          *)
(***************************************************************************)
AnalyzeNeverThrows == pc # "analyze_threw"

(***************************************************************************)
(* C6: a declarator of a name that the function already has, as a          *)
(* parameter or from an earlier declarator, gets exactly one redeclaration *)
(* diagnostic and no diagnostic from its initializer, and the symbol keeps *)
(* the type and the parameter flag of the first declaration.               *)
(***************************************************************************)
IsRedeclaration(fn, j) ==
    LET d == DeclaratorsOf(fn.body)
    IN  \/ d[j].name \in ParamNameSet(fn)
        \/ \E i \in 1..(j - 1) : d[i].name = d[j].name

Redeclarations(tree, n) ==
    SumOver([k \in FunctionIndexes(tree) |->
                Cardinality({ j \in DOMAIN DeclaratorsOf(tree.body[k].body) :
                                /\ DeclaratorsOf(tree.body[k].body)[j].name = n
                                /\ IsRedeclaration(tree.body[k], j) })],
            FunctionIndexes(tree))

(* Fresh declarators whose initializer is the identifier c.                *)
FreshUses(tree, c) ==
    SumOver([k \in FunctionIndexes(tree) |->
                Cardinality({ j \in DOMAIN DeclaratorsOf(tree.body[k].body) :
                                /\ DeclaratorsOf(tree.body[k].body)[j].initializer
                                      = [type |-> "Identifier", name |-> c]
                                /\ ~IsRedeclaration(tree.body[k], j) })],
            FunctionIndexes(tree))

(* The symbol of n after the analysis is the one of the last function that *)
(* has n: its parameter, or else its first declarator of n.                *)
KeptSymbol(tree, n) ==
    LET ks == { k \in FunctionIndexes(tree) :
                  \/ n \in ParamNameSet(tree.body[k])
                  \/ \E j \in DOMAIN DeclaratorsOf(tree.body[k].body) :
                        DeclaratorsOf(tree.body[k].body)[j].name = n }
        k  == CHOOSE k \in ks : \A k2 \in ks : k2 <= k
        fn == tree.body[k]
        d  == DeclaratorsOf(fn.body)
    IN  IF n \in ParamNameSet(fn)
        THEN LET i == CHOOSE i \in DOMAIN fn.parameters :
                         /\ fn.parameters[i].paramName = n
                         /\ \A i2 \in DOMAIN fn.parameters :
                               fn.parameters[i2].paramName = n => i2 <= i
             IN  [name |-> n, type |-> fn.parameters[i].paramType,
                  isParam |-> TRUE, scope |-> fn.name]
        ELSE LET j == CHOOSE j \in DOMAIN d :
                         d[j].name = n /\ \A i \in 1..(j - 1) : d[i].name # n
             IN  [name |-> n, type |-> d[j].varType,
                  isParam |-> FALSE, scope |-> fn.name]

RedeclarationDiagnosedOnce ==
    pc = "analyzed" =>
       /\ \A n \in SourceNames(ast) :
             /\ Count(sem.errors, [msg |-> "Variable already declared", name |-> n])
                   = Redeclarations(ast, n)
             /\ sem.symbolTable[n] = KeptSymbol(ast, n)
       /\ Count(sem.errors, [msg |-> "Variable not declared", name |-> <<"c">>])
             = FreshUses(ast, <<"c">>)

RedeclarationWitness ==
    /\ pc = "analyzed"
    /\ Redeclarations(ast, <<"a">>) = 1
    /\ Redeclarations(ast, <<"p">>) = 0
    /\ Len(sem.errors) = 1
    /\ \E k \in FunctionIndexes(ast) :
          /\ Len(DeclaratorsOf(ast.body[k].body)) = 2
          /\ \E j \in DOMAIN ast.body[k].body.body :
                ast.body[k].body.body[j].type = "ReturnStatement"

(***************************************************************************)
(* C7: every call of a declared function other than printf whose number of *)
(* arguments m differs from the number n of the signature's parameters     *)
(* gets exactly one diagnostic that states n and m, and no call of printf  *)
(* gets an argument-count diagnostic.  A function is declared for the body *)
(* of function k when it is a library function or is defined at or before  *)
(* position k of the program.                                              *)
(***************************************************************************)
UserFunctionNames(tree) == { tree.body[k].name : k \in FunctionIndexes(tree) }

CallsWith(tree, k, name, m) ==
    Count(CallsOf(tree.body[k].body), [name |-> name, got |-> m])

DefinedUpTo(tree, name, k) ==
    \E j \in FunctionIndexes(tree) : j <= k /\ tree.body[j].name = name

ParameterCount(tree, name) ==
    LET j == CHOOSE j \in FunctionIndexes(tree) : tree.body[j].name = name
    IN  Len(tree.body[j].parameters)

MaxArguments(tree) ==
    LET gots == UNION { { CallsOf(tree.body[k].body)[i].got
                          : i \in DOMAIN CallsOf(tree.body[k].body) }
                        : k \in FunctionIndexes(tree) }
    IN  IF gots = {} THEN 0 ELSE CHOOSE m \in gots : \A m2 \in gots : m2 <= m

ArityDiagnosedOnce ==
    pc = "analyzed" =>
       /\ \A name \in UserFunctionNames(ast) : \A m \in 0..MaxArguments(ast) :
             m # ParameterCount(ast, name) =>
                Count(sem.errors, [msg |-> "Function expects arguments",
                                   name |-> name,
                                   expects |-> ParameterCount(ast, name),
                                   got |-> m])
                  = SumOver([k \in FunctionIndexes(ast) |->
                               IF DefinedUpTo(ast, name, k)
                               THEN CallsWith(ast, k, name, m) ELSE 0],
                            FunctionIndexes(ast))
       /\ \A i \in DOMAIN sem.errors :
             sem.errors[i].msg = "Function expects arguments"
                => sem.errors[i].name # str_printf

(***************************************************************************)
(* C8: the signature of every function of the program is registered before *)
(* any body is analysed: no call of a function that the program defines,   *)
(* before or after the caller, is diagnosed as not declared, and every     *)
(* such call with the wrong number of arguments is diagnosed.              *)
(***************************************************************************)
ForwardReferenceResolves ==
    pc = "analyzed" =>
       \A name \in UserFunctionNames(ast) :
          /\ Count(sem.errors, [msg |-> "Function not declared", name |-> name]) = 0
          /\ (\E k \in FunctionIndexes(ast) : \E m \in 0..MaxArguments(ast) :
                 /\ m # ParameterCount(ast, name)
                 /\ ~DefinedUpTo(ast, name, k)
                 /\ CallsWith(ast, k, name, m) > 0)
             => \E i \in DOMAIN sem.errors :
                   /\ sem.errors[i].msg = "Function expects arguments"
                   /\ sem.errors[i].name = name

(* Programs for the generator: function main with a body of up to          *)
(* MaxGenStmts declarations with initializers, followed by a return.       *)
str_main == <<"m","a","i","n">>
str_sum == <<"s","u","m">>
MainHeader == << str_int, str_main, <<"(">>, <<")">>, <<"{">> >>
GenStatements ==
    { << str_int, <<"a">>, <<"=">>, <<"5">>, <<";">> >>,
      << str_int, <<"b">>, <<"=">>, <<"1","0">>, <<";">> >>,
      << str_int, str_sum, <<"=">>, <<"a">>, <<"+">>, <<"b">>, <<";">> >>,
      << str_int, str_sum, <<"=">>, <<"a">>, <<"+">>, <<"b">>, <<"*">>, <<"2">>, <<";">> >>,
      << str_int, str_sum, <<"=">>, <<"a">>, <<"*">>, <<"b">>, <<"-">>, <<"1">>, <<";">> >>,
      << str_int, <<"y">>, <<"=">>, <<"a">>, <<"+","+">>, <<";">> >>,
      << str_int, <<"y">>, <<"=">>, <<"+","+">>, <<"a">>, <<";">> >>,
      << str_int, <<"y">>, <<"=">>, <<"a">>, <<"-","-">>, <<";">> >>,
      << str_int, <<"y">>, <<"=">>, <<"-","-">>, <<"a">>, <<";">> >> }
GenReturns ==
    { << str_return, n, <<";">> >> : n \in { <<"a">>, str_sum, <<"y">> } }
GenSources ==
    { Join(MainHeader \o Flatten(b) \o r \o << <<"}">> >>)
      : b \in SeqsUpTo(GenStatements, MaxGenStmts), r \in GenReturns }

InitGen == InitWith(GenSources)
SpecGen == InitGen /\ [][Next]_vars

(***************************************************************************)
(* C9: for a function whose body is declarations with initializers (built  *)
(* of literals, identifiers and binary operators) followed by a return of  *)
(* a name, the instructions are the entry LABEL, then for each declaration *)
(* in source order the lowering of its initializer followed by one '='     *)
(* into the declared name, then one RETURN of the returned name; a binary  *)
(* expression contributes one instruction: its operator applied to the     *)
(* names of its lowered sides into a temporary not used before.            *)
(***************************************************************************)
RECURSIVE IsPlain(_)
IsPlain(e) ==
    \/ e.type \in {"Literal", "Identifier"}
    \/ e.type = "BinaryExpression" /\ IsPlain(e.left) /\ IsPlain(e.right)

IsDeclarationsThenReturn(fn) ==
    /\ fn.body.type = "CompoundStatement"
    /\ Len(fn.body.body) >= 2
    /\ \A j \in 1..(Len(fn.body.body) - 1) :
          /\ fn.body.body[j].type = "DeclarationStatement"
          /\ \A v \in DOMAIN fn.body.body[j].variables :
                IsPlain(fn.body.body[j].variables[v].initializer)
    /\ fn.body.body[Len(fn.body.body)].type = "ReturnStatement"
    /\ fn.body.body[Len(fn.body.body)].expression.type = "Identifier"

Temp(n) == <<"t">> \o toString(n)

(* The instructions expected of an expression when n temporaries are in    *)
(* use: code, the name of the result, and the temporaries then in use.     *)
RECURSIVE Lowering(_, _)
Lowering(e, n) ==
    CASE e.type = "Identifier" -> [code |-> << >>, name |-> e.name, n |-> n]
      [] e.type = "Literal" ->
            [code |-> << Instr(op_ASSIGN, e.value, NullStr, Temp(n + 1)) >>,
             name |-> Temp(n + 1), n |-> n + 1]
      [] e.type = "BinaryExpression" ->
            LET l == Lowering(e.left, n)
                r == Lowering(e.right, l.n)
            IN  [code |-> l.code \o r.code
                          \o << Instr(e.operator, l.name, r.name, Temp(r.n + 1)) >>,
                 name |-> Temp(r.n + 1), n |-> r.n + 1]

RECURSIVE DeclarationsLowering(_, _, _)
DeclarationsLowering(d, k, n) ==
    IF k > Len(d) THEN << >>
    ELSE LET i == Lowering(d[k].initializer, n)
         IN  i.code \o << Instr(op_ASSIGN, i.name, NullStr, d[k].name) >>
             \o DeclarationsLowering(d, k + 1, i.n)

ExpectedInstructions(fn) ==
    << Instr(op_LABEL, NullStr, NullStr, <<"f","u","n","c","_">> \o fn.name) >>
    \o DeclarationsLowering(DeclaratorsOf(fn.body), 1, 0)
    \o << Instr(op_RETURN, fn.body.body[Len(fn.body.body)].expression.name,
                NullStr, NullStr) >>

RECURSIVE BinaryCount(_)
BinaryCount(e) ==
    IF e.type = "BinaryExpression"
    THEN 1 + BinaryCount(e.left) + BinaryCount(e.right) ELSE 0

IsOperatorInstruction(i) == i.op \in { <<"+">>, <<"-">>, <<"*">> }

DeclarationsLowered ==
    pc = "ir" =>
       \A k \in FunctionIndexes(ast) :
          IsDeclarationsThenReturn(ast.body[k]) =>
             \E f \in DOMAIN ir :
                LET ins == ir[f].instructions
                    d   == DeclaratorsOf(ast.body[k].body)
                IN  /\ ir[f].name = ast.body[k].name
                    /\ ins = ExpectedInstructions(ast.body[k])
                    /\ Cardinality({ i \in DOMAIN ins : IsOperatorInstruction(ins[i]) })
                          = SumOver([j \in DOMAIN d |-> BinaryCount(d[j].initializer)],
                                    DOMAIN d)
                    /\ \A i \in DOMAIN ins : IsOperatorInstruction(ins[i]) =>
                          \A j \in 1..(i - 1) :
                             /\ ins[j].result # ins[i].result
                             /\ ins[j].arg1 # ins[i].result
                             /\ ins[j].arg2 # ins[i].result

(* int a = 5; int b = 10; int sum = a + b; return sum;                     *)
DeclarationsLoweredWitness ==
    /\ pc = "ir"
    /\ IsDeclarationsThenReturn(ast.body[1])
    /\ Len(ir) = 1
    /\ ir[1].name = str_main
    /\ ir[1].instructions =
          << Instr(op_LABEL, NullStr, NullStr, <<"f","u","n","c","_","m","a","i","n">>),
             Instr(op_ASSIGN, <<"5">>, NullStr, <<"t","1">>),
             Instr(op_ASSIGN, <<"t","1">>, NullStr, <<"a">>),
             Instr(op_ASSIGN, <<"1","0">>, NullStr, <<"t","2">>),
             Instr(op_ASSIGN, <<"t","2">>, NullStr, <<"b">>),
             Instr(<<"+">>, <<"a">>, <<"b">>, <<"t","3">>),
             Instr(op_ASSIGN, <<"t","3">>, NullStr, str_sum),
             Instr(op_RETURN, str_sum, NullStr, NullStr) >>

(***************************************************************************)
(* C10: the name a lowered ++x, --x, x++ or x-- returns holds, when the    *)
(* instruction that consumes it reads it after the update, the updated     *)
(* value of x for the prefix form and the value x had before the update    *)
(* for the postfix form.  Stated on the programs of SpecGen that the       *)
(* analyzer accepts: the value the instructions return is the value the    *)
(* source returns, where a declaration stores the value of its initializer *)
(* and the value of a prefix or postfix expression is the one above.       *)
(***************************************************************************)
Lookup(env, name) == IF name \in DOMAIN env THEN env[name] ELSE 0

RECURSIVE SourceValue(_, _)
SourceValue(e, env) ==
    CASE e.type = "Literal" -> [env |-> env, val |-> Number(e.value)]
      [] e.type = "Identifier" -> [env |-> env, val |-> Lookup(env, e.name)]
      [] e.type = "BinaryExpression" ->
            LET l == SourceValue(e.left, env)
                r == SourceValue(e.right, l.env)
            IN  [env |-> r.env,
                 val |-> CASE e.operator = <<"+">> -> l.val + r.val
                           [] e.operator = <<"-">> -> l.val - r.val
                           [] e.operator = <<"*">> -> l.val * r.val]
      [] e.type \in {"PrefixExpression", "PostfixExpression"} ->
            LET before == Lookup(env, e.argument.name)
                after  == IF e.operator = <<"+","+">> THEN before + 1 ELSE before - 1
            IN  [env |-> MapSet(env, e.argument.name, after),
                 val |-> IF e.type = "PrefixExpression" THEN after ELSE before]

RECURSIVE SourceReturn(_, _, _)
SourceReturn(stmts, k, env) ==
    IF stmts[k].type = "ReturnStatement"
    THEN SourceValue(stmts[k].expression, env).val
    ELSE LET v == SourceValue(stmts[k].variables[1].initializer, env)
         IN  SourceReturn(stmts, k + 1, MapSet(v.env, stmts[k].variables[1].name, v.val))

IsUnary(e) == e.type \in {"PrefixExpression", "PostfixExpression"}

HasUnaryInitializer(fn) ==
    \E j \in DOMAIN DeclaratorsOf(fn.body) : IsUnary(DeclaratorsOf(fn.body)[j].initializer)

UnaryResultValue ==
    (pc = "ir" /\ sem.errors = << >> /\ HasUnaryInitializer(ast.body[1])) =>
        LET run == Exec(ir[1].instructions, 1, EmptyMap)
        IN  /\ run.returned
            /\ run.ret = SourceReturn(ast.body[1].body.body, 1, EmptyMap)

(***************************************************************************)
(* Programs for the optimizer and the code generator: f returning its      *)
(* parameter, then main with declarations whose initializer is one         *)
(* operator of the language on two literals, declarations on a variable,   *)
(* calls of f with a literal and with a variable, and a counting loop.     *)
(***************************************************************************)
MaxOptStmts == 2

BinaryOperators ==
    { <<"+">>, <<"-">>, <<"*">>, <<"/">>, <<"%">>, <<"=","=">>, <<"!","=">>,
      <<"<">>, <<">">>, <<"<","=">>, <<">","=">> }
FDefinition ==
    << str_int, <<"f">>, <<"(">>, str_int, <<"p">>, <<")">>,
       <<"{">>, str_return, <<"p">>, <<";">>, <<"}">> >>
OptStatements ==
    { << str_int, <<"s">>, <<"=">>, <<"7">>, o, <<"2">>, <<";">> >>
      : o \in BinaryOperators }
    \cup
    { << str_int, <<"a">>, <<"=">>, <<"5">>, <<";">> >>,
      << str_int, <<"c">>, <<"=">>, <<"a">>, <<"+">>, <<"1">>, <<";">> >>,
      << str_int, <<"c">>, <<"=">>, <<"f">>, <<"(">>, <<"5">>, <<")">>, <<";">> >>,
      << str_int, <<"c">>, <<"=">>, <<"f">>, <<"(">>, <<"a">>, <<")">>, <<";">> >>,
      << str_for, <<"(">>, <<"a">>, <<";">>, <<"a">>, <<"<">>, <<"3">>, <<";">>,
         <<"a">>, <<"=">>, <<"a">>, <<"+">>, <<"1">>, <<")">>,
         <<"{">>, <<"}">> >> }
OptReturns ==
    { << str_return, n, <<";">> >> : n \in { <<"s">>, <<"0">> } }
OptSources ==
    { Join(FDefinition \o MainHeader \o Flatten(b) \o r \o << <<"}">> >>)
      : b \in SeqsUpTo(OptStatements, MaxOptStmts), r \in OptReturns }

InitOpt == InitWith(OptSources)
SpecOpt == InitOpt /\ [][Next]_vars

(***************************************************************************)
(* Helpers of the optimizer claims.                                        *)
(***************************************************************************)
str_true == <<"t","r","u","e">>
str_false == <<"f","a","l","s","e">>

(* The integer numeral the operand of the instruction at i is known to     *)
(* hold when folding reaches it: the operand itself, or the numeral the    *)
(* latest earlier '=' on it assigned; NullStr when there is none.          *)
ConstantAt(instructions, i, operand) ==
    LET defs == { j \in 1..(i - 1) :
                     /\ instructions[j].op = op_ASSIGN
                     /\ instructions[j].result = operand
                     /\ IsNumeral(instructions[j].arg1) }
    IN  IF IsNumeral(operand) THEN operand
        ELSE IF defs = {} THEN NullStr
        ELSE instructions[CHOOSE j \in defs : \A h \in defs : h <= j].arg1

TruthTexts(b) == IF b THEN {<<"1">>, str_true} ELSE {<<"0">>, str_false}

(* The texts that stand for op applied to the integers x and y: a          *)
(* comparison as 1 or 0 or as true or false, a quotient truncated or not.  *)
Applied(op, x, y) ==
    IF op = <<"+">> THEN {intToString(x + y)}
    ELSE IF op = <<"-">> THEN {intToString(x - y)}
    ELSE IF op = <<"*">> THEN {intToString(x * y)}
    ELSE IF op = <<"/">>
    THEN {intToString(x \div y), numberToString([n |-> x, d |-> y])}
    ELSE IF op = <<"%">> THEN {intToString(x % y)}
    ELSE IF op = <<"=","=">> THEN TruthTexts(x = y)
    ELSE IF op = <<"!","=">> THEN TruthTexts(x # y)
    ELSE IF op = <<"<">> THEN TruthTexts(x < y)
    ELSE IF op = <<">">> THEN TruthTexts(x > y)
    ELSE IF op = <<"<","=">> THEN TruthTexts(x <= y)
    ELSE TruthTexts(x >= y)

(* C11: in every generated function, a binary-operator instruction whose   *)
(* two operands are integer numerals, themselves or through the constants  *)
(* assigned before it, is replaced by constant folding by one '=' on the   *)
(* same destination whose value is the operator applied to the numerals.   *)
ConstantFoldingApplies ==
    \A k \in DOMAIN ir :
        LET instructions == ir[k].instructions IN
        \A i \in DOMAIN instructions :
            LET instr == instructions[i]
                c1 == ConstantAt(instructions, i, instr.arg1)
                c2 == ConstantAt(instructions, i, instr.arg2)
            IN  ( /\ instr.op \in BinaryOperators
                  /\ c1 # NullStr /\ c2 # NullStr
                  /\ instr.op \in {<<"/">>, <<"%">>} => Number(c2) # 0 )
                => constantFolding(instructions)[i]
                       \in { Instr(op_ASSIGN, v, NullStr, instr.result) :
                               v \in Applied(instr.op, Number(c1), Number(c2)) }

(* the operands of a list of instructions                                  *)
Operands(instructions) ==
    { instructions[i].arg1 : i \in DOMAIN instructions }
        \cup { instructions[i].arg2 : i \in DOMAIN instructions }

(* the destinations of the '=' of a function that no instruction of it     *)
(* has as an operand                                                       *)
DeadDestinations(instructions) ==
    { instructions[i].result : i \in { j \in DOMAIN instructions :
                                         instructions[j].op = op_ASSIGN } }
        \ Operands(instructions)

OptimizeKeepsInput == pc = "optimized" => optIn = ir

(* optimize has returned a Map that differs from the one it was given.     *)
OptimizeKeepsInputWitness == pc = "optimized" /\ opt # ir /\ ir # << >>

(* the fields of an instruction that the loop pass may not change          *)
Plain(instr) == Instr(instr.op, instr.arg1, instr.arg2, instr.result)

(* C14: for every generated function, the loop pass returns the            *)
(* instructions it is given, as many and in the same order, with the same  *)
(* op, arg1, arg2 and result at every index.                               *)
LoopPassKeepsInstructions ==
    \A k \in DOMAIN ir :
        LET given == commonSubexpressionElimination(deadCodeElimination(
                         constantFolding(ir[k].instructions)))
            returned == loopOptimization(given)
        IN  /\ Len(returned) = Len(given)
            /\ \A i \in DOMAIN given : Plain(returned[i]) = Plain(given[i])

(***************************************************************************)
(* Helpers of the code generator claims: the lines of the assembly text.   *)
(***************************************************************************)
StartsWith(line, prefix) ==
    Len(line) >= Len(prefix) /\ SubSeq(line, 1, Len(prefix)) = prefix

IsPushOfParam(line) ==
    StartsWith(line, <<" "," "," "," ","p","u","s","h"," ">>) /\ line # <<" "," "," "," ","p","u","s","h"," ","e","b","p">>

IsCallLine(line) == StartsWith(line, <<" "," "," "," ","c","a","l","l"," ">>)

(* C15: once the assembly is generated, for every function given to the   *)
(* code generator whose instructions contain a RETURN, exactly one line is *)
(* the label <name>_end, and the epilogue follows it.                      *)
EndLabelDefinedOnce ==
    pc = "assembly" =>
        \A k \in DOMAIN opt :
            (\E i \in DOMAIN opt[k].instructions :
                 opt[k].instructions[i].op = op_RETURN)
            => LET lines == splitLines(asm)
                   defs == { i \in DOMAIN lines :
                               lines[i] = opt[k].name \o <<"_","e","n","d",":">> }
               IN  /\ Cardinality(defs) = 1
                   /\ \A i \in defs :
                          i < Len(lines) /\ lines[i + 1] = <<" "," "," "," ","m","o","v"," ","e","s","p",","," ","e","b","p">>

(* the bytes the line after the call at i takes off the stack              *)
Cleanup(lines, i) ==
    IF i < Len(lines) /\ StartsWith(lines[i + 1], <<" "," "," "," ","a","d","d"," ","e","s","p",","," ">>)
    THEN Number(SubSeq(lines[i + 1], Len(<<" "," "," "," ","a","d","d"," ","e","s","p",","," ">>) + 1,
                       Len(lines[i + 1])))
    ELSE 0

(* the parameter pushes before the call at i, back to the call before it   *)
(* or to the start of the function                                         *)
PushesBefore(lines, i) ==
    LET from == CHOOSE j \in 1..(i - 1) :
                    /\ IsCallLine(lines[j]) \/ lines[j] = <<" "," "," "," ","p","u","s","h"," ","e","b","p">>
                    /\ \A h \in (j + 1)..(i - 1) :
                           ~IsCallLine(lines[h]) /\ lines[h] # <<" "," "," "," ","p","u","s","h"," ","e","b","p">>
    IN  Cardinality({ h \in (from + 1)..(i - 1) : IsPushOfParam(lines[h]) })

(* C16: once the assembly of the optimized intermediate code is generated, *)
(* at every call the parameters pushed for it are as many as the cleanup   *)
(* after it takes off the stack, four bytes each.                          *)
CallsStackBalanced ==
    pc = "assembly" =>
        LET lines == splitLines(asm) IN
        \A i \in DOMAIN lines :
            IsCallLine(lines[i])
                => 4 * PushesBefore(lines, i) = Cleanup(lines, i)

(* the function comment lines of the assembly, in order                    *)
FunctionBlocks(lines) ==
    SelectSeq(lines, LAMBDA line : StartsWith(line, <<";"," ","F","u","n","c","t","i","o","n",":"," ">>))

(* C17: the text generate returned is the text a new instance on the same  *)
(* Map returns, and the text the same instance returns when generate is    *)
(* called on it a second and a third time; its function blocks are in the  *)
(* order of the Map.                                                       *)
GenerateRepeatable ==
    pc = "assembly" =>
        Let(CodeGenerator_generate(NewCodeGenerator(opt)), LAMBDA first :
        Let(CodeGenerator_generate(first.cg), LAMBDA second :
            /\ first.text = asm
            /\ second.text = asm
            /\ CodeGenerator_generate(second.cg).text = asm
            /\ FunctionBlocks(splitLines(asm))
                   = [k \in DOMAIN opt |-> <<";"," ","F","u","n","c","t","i","o","n",":"," ">> \o opt[k].name]))

(* the assembly of two functions has been generated                        *)
GenerateRepeatableWitness ==
    pc = "assembly" /\ Len(opt) = 2 /\ Len(FunctionBlocks(splitLines(asm))) = 2

(***************************************************************************)
(* Expression statements: main holding one expression of up to             *)
(* MaxOperators operators of the twelve, on an identifier, a literal, an   *)
(* identifier and a literal in turn.                                       *)
(***************************************************************************)
MaxOperators == 2

ExprOperands == << <<"a">>, <<"2">>, <<"c">>, <<"4">>, <<"e">> >>
ExprOperators == BinaryOperators \cup { <<"=">> }
ExprLexemes(ops) ==
    [k \in 1..(2 * Len(ops) + 1) |->
        IF k % 2 = 1 THEN ExprOperands[(k + 1) \div 2] ELSE ops[k \div 2]]
ExprSources ==
    { Join(MainHeader \o ExprLexemes(ops) \o << <<";">>, <<"}">> >>)
      : ops \in SeqsUpTo(ExprOperators, MaxOperators) }

InitExpr == InitWith(ExprSources)
SpecExpr == InitExpr /\ [][Next]_vars

(* the level of an operator in the precedence chain, lowest first, and of  *)
(* a node: its operator's, or above all operators for an operand           *)
Level(op) ==
    IF op = <<"=">> THEN 0
    ELSE IF op \in { <<"=","=">>, <<"!","=">> } THEN 1
    ELSE IF op \in { <<"<">>, <<">">>, <<"<","=">>, <<">","=">> } THEN 2
    ELSE IF op \in { <<"+">>, <<"-">> } THEN 3
    ELSE 4

NodeLevel(node) ==
    IF node.type \in {"BinaryExpression", "AssignmentExpression"}
    THEN Level(node.operator) ELSE 5

(* the lexemes of an expression tree from left to right                    *)
RECURSIVE Yield(_)
Yield(node) ==
    IF node.type = "Identifier" THEN <<node.name>>
    ELSE IF node.type = "Literal" THEN <<node.value>>
    ELSE IF node.type \in {"BinaryExpression", "AssignmentExpression"}
    THEN Yield(node.left) \o <<node.operator>> \o Yield(node.right)
    ELSE << >>

(* Every operator node has operands of higher levels, but that a binary    *)
(* operator may have its own level on the left and an assignment on the    *)
(* right.                                                                  *)
RECURSIVE NestedByPrecedence(_)
NestedByPrecedence(node) ==
    IF node.type = "BinaryExpression"
    THEN /\ node.operator # <<"=">>
         /\ NodeLevel(node.left) >= Level(node.operator)
         /\ NodeLevel(node.right) > Level(node.operator)
         /\ NestedByPrecedence(node.left)
         /\ NestedByPrecedence(node.right)
    ELSE IF node.type = "AssignmentExpression"
    THEN /\ node.operator = <<"=">>
         /\ NodeLevel(node.left) > 0
         /\ NestedByPrecedence(node.left)
         /\ NestedByPrecedence(node.right)
    ELSE node.type \in {"Identifier", "Literal"}

(* the expression of the first statement of the first function             *)
FirstExpression == ast.body[1].body.body[1].expression

(* C18: once the program is parsed, the tree of its expression has the     *)
(* expression's lexemes from left to right and nests its operators by the  *)
(* precedence chain, binary operators of one level to the left and         *)
(* assignments to the right.                                               *)
ExpressionNestedByPrecedence ==
    pc = "ast" =>
        /\ Yield(FirstExpression)
               = [k \in 1..(Len(tokens) - 7) |-> tokens[k + 5].value]
        /\ NestedByPrecedence(FirstExpression)

(* a + 2 * c is parsed with the product as the right operand of the sum.   *)
ExpressionNestedByPrecedenceWitness ==
    /\ pc = "ast"
    /\ FirstExpression.type = "BinaryExpression"
    /\ FirstExpression.operator = <<"+">>
    /\ FirstExpression.left = [type |-> "Identifier", name |-> <<"a">>]
    /\ FirstExpression.right.type = "BinaryExpression"
    /\ FirstExpression.right.operator = <<"*">>

(***************************************************************************)
(* Programs of up to MaxDefs function definitions, each named f or as one  *)
(* of the library functions printf and exit, with one parameter or none.   *)
(***************************************************************************)
MaxDefs == 2

str_exit == <<"e","x","i","t">>
DefinitionNames == { <<"f">>, str_printf, str_exit }
Definitions ==
    { << str_int, n, <<"(">>, str_int, <<"p">>, <<")">>,
         <<"{">>, str_return, <<"p">>, <<";">>, <<"}">> >> : n \in DefinitionNames }
    \cup
    { << str_int, n, <<"(">>, <<")">>,
         <<"{">>, str_return, <<"0">>, <<";">>, <<"}">> >> : n \in DefinitionNames }
DefinitionSources ==
    { Join(Flatten(ds)) : ds \in SeqsUpTo(Definitions, MaxDefs) \ { << >> } }

InitNames == InitWith(DefinitionSources)
SpecNames == InitNames /\ [][Next]_vars

(* the definitions of the program whose name is that of a library function *)
(* or of a definition before them                                          *)
ConflictingDefinitions ==
    { k \in DOMAIN ast.body :
        /\ ast.body[k].type = "FunctionDeclaration"
        /\ \/ \E i \in DOMAIN stdlibFunctions :
                 stdlibFunctions[i].name = ast.body[k].name
           \/ \E j \in 1..(k - 1) :
                 /\ ast.body[j].type = "FunctionDeclaration"
                 /\ ast.body[j].name = ast.body[k].name }

(* C19: once a program is analyzed, for every function definition named    *)
(* as a library function or as an earlier definition the errors hold a     *)
(* diagnostic on that name.                                                *)
FunctionNameConflictsReported ==
    (pc = "analyzed" /\ ast.type = "Program") =>
        \A k \in ConflictingDefinitions :
            \E e \in DOMAIN sem.errors :
                sem.errors[e].name = ast.body[k].name

(* the operator lexemes of tokenRegex[OPERATOR]                            *)
OperatorLexemes == TwoCharOperator \cup { <<c>> : c \in OperatorChar }

(* C20: once the text is tokenized, at the start of every line that begins *)
(* with an operator character not followed by a second slash and whose     *)
(* first two characters are not a two-character operator, the scanning     *)
(* step gives an operator token of that one character and goes on at the   *)
(* next character, or past the end of a line of one character; and the     *)
(* value of every operator token is one operator lexeme.                   *)
OperatorTokensAreLexemes ==
    pc # "source" =>
        /\ \A line \in { splitLines(replaceBlockComments(src).text)[n] :
                           n \in DOMAIN splitLines(replaceBlockComments(src).text) } :
              ( /\ line # << >>
                /\ line[1] \in OperatorChar
                /\ SubSeq(line, 1, Min({2, Len(line)})) \notin TwoCharOperator
                /\ SubSeq(line, 1, Min({2, Len(line)})) # <<"/","/">> )
              => /\ scanToken(line, 1).tok = Tok("OPERATOR", <<line[1]>>)
                 /\ Min({scanToken(line, 1).next, Len(line) + 1}) = 2
        /\ \A k \in DOMAIN tokens :
              tokens[k].type = "OPERATOR"
                  => tokens[k].value \in OperatorLexemes

(***************************************************************************)
(* Sources for the numeric literals: texts over a digit, the point, the    *)
(* exponent letters and the blank.                                         *)
(***************************************************************************)
MaxNumLen == 5

NumAlphabet == {"1", ".", "e", "E", " "}
NumSources == SeqsUpTo(NumAlphabet, MaxNumLen)

InitNum == InitWith(NumSources)
SpecNum == InitNum /\ [][Next]_vars

(* digits '.' digits, optionally followed by e or E and digits             *)
IsFractionalNumeral(l) ==
    \E d \in 2..(Len(l) - 1) :
        /\ l[d] = "."
        /\ AllIn(l, 1, d - 1, Digit)
        /\ \/ AllIn(l, d + 1, Len(l), Digit)
           \/ \E e \in (d + 2)..(Len(l) - 1) :
                 /\ l[e] \in {"e", "E"}
                 /\ AllIn(l, d + 1, e - 1, Digit)
                 /\ AllIn(l, e + 1, Len(l), Digit)

(* C21: once the text is tokenized, a source that is, between blanks, one  *)
(* decimal numeral with a fractional part (digits, point, digits, and      *)
(* possibly e or E and digits) has given exactly one token, a NUMBER whose *)
(* value is the whole numeral.                                             *)
FractionalNumeralIsOneToken ==
    (pc # "source" /\ IsFractionalNumeral(trim(src)))
        => tokens = << Tok("NUMBER", trim(src)) >>

(***************************************************************************)
(* Sources for the scopes: a function whose body is up to MaxScopeStmts    *)
(* statements, each a block or a for loop that declares a, or a plain      *)
(* declaration.                                                            *)
(***************************************************************************)
MaxScopeStmts == 2

VoidHeader == << str_void, <<"f">>, <<"(">>, <<")">>, <<"{">> >>
BlockDeclaringA == << <<"{">>, str_int, <<"a">>, <<";">>, <<"}">> >>
ForDeclaringA ==
    << str_for, <<"(">>, str_int, <<"a">>, <<"=">>, <<"0">>, <<";">>,
       <<"a">>, <<"<">>, <<"1">>, <<";">>, <<")">>, <<"{">>, <<"}">> >>
ScopeStatements ==
    { BlockDeclaringA, ForDeclaringA,
      << <<"{">>, str_int, <<"b">>, <<";">>, <<"}">> >>,
      << <<"{">>, <<"{">>, str_int, <<"a">>, <<";">>, <<"}">>, <<"}">> >>,
      << str_int, <<"a">>, <<";">> >> }
ScopeSource(b) == Join(VoidHeader \o Flatten(b) \o << <<"}">> >>)
ScopeSources == { ScopeSource(b) : b \in SeqsUpTo(ScopeStatements, MaxScopeStmts) }

InitScope == InitWith(ScopeSources)
SpecScope == InitScope /\ [][Next]_vars

(* two sibling blocks, or two sibling for loops, that each declare a       *)
SiblingSources ==
    { ScopeSource(<<BlockDeclaringA, BlockDeclaringA>>),
      ScopeSource(<<ForDeclaringA, ForDeclaringA>>) }

(* C22: for a function whose body is two sibling blocks, or two sibling    *)
(* for loops, that each declare the variable a, neither the analysis of    *)
(* the scoped analyzer nor the analysis of the pipeline's analyzer holds a *)
(* diagnostic of a variable already declared.                              *)
SiblingScopesDistinct ==
    src \in SiblingSources =>
        /\ pc = "scoped" =>
              \A e \in DOMAIN scoped.errors :
                  scoped.errors[e].msg # "Variable is already declared in this scope"
        /\ pc = "analyzed" =>
              \A e \in DOMAIN sem.errors :
                  sem.errors[e].msg # "Variable already declared"

(* the operands of an instruction line of the assembly: the texts after    *)
(* the mnemonic, separated by a comma and a blank; none for other lines    *)
Mnemonics == { <<"m","o","v">>, <<"a","d","d">>, <<"s","u","b">>, <<"i","m","u","l">>, <<"i","d","i","v">>, <<"c","m","p">>, <<"p","u","s","h">> }
Registers == { <<"e","a","x">>, <<"e","d","x">>, <<"e","b","p">>, <<"e","s","p">> }

FirstIndex(text, c) ==
    IF \E k \in DOMAIN text : text[k] = c
    THEN Min({ k \in DOMAIN text : text[k] = c }) ELSE 0

AsmOperands(line) ==
    IF ~StartsWith(line, <<" "," "," "," ">>) THEN << >>
    ELSE LET code == SubSeq(line, 5, Len(line))
             sp == FirstIndex(code, " ")
             rest == SubSeq(code, sp + 1, Len(code))
             comma == FirstIndex(rest, ",")
         IN  IF sp = 0 \/ SubSeq(code, 1, sp - 1) \notin Mnemonics THEN << >>
             ELSE IF comma = 0 THEN << rest >>
             ELSE << SubSeq(rest, 1, comma - 1), SubSeq(rest, comma + 2, Len(rest)) >>

IsFrameRelative(operand) ==
    /\ StartsWith(operand, <<"[","e","b","p">>)
    /\ operand[Len(operand)] = "]"

(* C23: once the assembly of a program without semantic diagnostics is     *)
(* generated, every operand of every instruction line (mov, add, sub,      *)
(* imul, idiv, cmp, push) is a register, a numeral or a bracketed offset   *)
(* from the frame pointer: no name of a parameter, a local variable or a   *)
(* temporary stands bare.                                                  *)
OperandsFrameRelative ==
    (pc = "assembly" /\ sem.errors = << >>) =>
        LET lines == splitLines(asm) IN
        \A i \in DOMAIN lines :
            \A o \in DOMAIN AsmOperands(lines[i]) :
                Let(AsmOperands(lines[i])[o], LAMBDA operand :
                    \/ operand \in Registers
                    \/ operand # << >> /\ isNumeric(operand)
                    \/ IsFrameRelative(operand))

(***************************************************************************)
(* Sources for the control statements: a function main whose body is a     *)
(* statement nested up to MaxNest deep in if statements, for loops and     *)
(* blocks, possibly followed by a second statement, and possibly after a   *)
(* function g that holds an if statement and a for loop of its own.        *)
(***************************************************************************)
MaxNest == 2

BaseStatement == << <<"a">>, <<"=">>, <<"1">>, <<";">> >>
IfOf(s) == << str_if, <<"(">>, <<"a">>, <<")">> >> \o s
IfElseOf(s, t) == IfOf(s) \o << str_else >> \o t
ForDeclarationOf(s) ==
    << str_for, <<"(">>, str_int, <<"i">>, <<"=">>, <<"0">>, <<";">>,
       <<"i">>, <<"<">>, <<"2">>, <<";">>, <<"i">>, <<"+","+">>, <<")">> >> \o s
ForExpressionOf(s) ==
    << str_for, <<"(">>, <<"i">>, <<"=">>, <<"0">>, <<";">>,
       <<"i">>, <<"<">>, <<"2">>, <<";">>,
       <<"i">>, <<"=">>, <<"i">>, <<"+">>, <<"1">>, <<")">> >> \o s
BlockOf(s) == << <<"{">> >> \o s \o << <<"}">> >>

RECURSIVE CtlStatements(_)
CtlStatements(d) ==
    IF d = 0 THEN { BaseStatement }
    ELSE LET inner == CtlStatements(d - 1)
         IN  inner
             \cup { IfOf(s) : s \in inner }
             \cup { IfElseOf(s, BaseStatement) : s \in inner }
             \cup { IfElseOf(BaseStatement, s) : s \in inner }
             \cup { ForDeclarationOf(s) : s \in inner }
             \cup { ForExpressionOf(s) : s \in inner }
             \cup { BlockOf(s) : s \in inner }

CtlSecond == { << >>, IfOf(BaseStatement), ForExpressionOf(BaseStatement) }
GControl ==
    << str_int, <<"g">>, <<"(">>, <<")">>, <<"{">> >>
    \o IfOf(BaseStatement) \o ForDeclarationOf(BaseStatement) \o << <<"}">> >>
CtlSources ==
    { Join(pre \o MainHeader \o s \o t \o << <<"}">> >>)
      : pre \in { << >>, GControl }, s \in CtlStatements(MaxNest), t \in CtlSecond }

InitCtl == InitWith(CtlSources)
SpecCtl == InitCtl /\ [][Next]_vars

(* the statement nodes of a statement: itself and the statements nested    *)
(* in its branches, its body or its list                                   *)
RECURSIVE StatementsIn(_)
StatementsIn(stmt) ==
    IF IsNull(stmt) THEN { }
    ELSE {stmt} \cup
         CASE stmt.type = "IfStatement" ->
                  StatementsIn(stmt.then) \cup StatementsIn(stmt.else)
           [] stmt.type = "ForStatement" -> StatementsIn(stmt.body)
           [] stmt.type = "CompoundStatement" ->
                  UNION { StatementsIn(stmt.body[k]) : k \in DOMAIN stmt.body }
           [] OTHER -> { }

(* the statement nodes of every function of the tree                       *)
ProgramStatements(tree) ==
    UNION { StatementsIn(tree.body[k].body) : k \in DOMAIN tree.body }

(* a generator at the start of a function, and one that goes on from g     *)
(* with an empty instruction list                                          *)
FreshGenerator ==
    [instructions |-> << >>, tempCount |-> 0, labelCounter |-> 0, threw |-> FALSE]
Onward(g) == [g EXCEPT !.instructions = << >>]

LabelName(n) == <<"L">> \o toString(n)

(* the order of an if statement's lowering: the condition, IF_FALSE to the *)
(* else label, the then branch, GOTO the end label, the else label, the    *)
(* else branch when there is one, the end label; the two labels are the    *)
(* next two after those the condition took.                                *)
IfLowering(node) ==
    Let(generateExpression(FreshGenerator, node.condition), LAMBDA c :
    Let(generateStatement(Onward([c.g EXCEPT !.labelCounter = @ + 2]), node.then),
        LAMBDA t :
    Let(generateStatement(Onward(t), node.else), LAMBDA e :
        c.g.instructions
        \o << Instr(op_IF_FALSE, c.name, LabelName(c.g.labelCounter + 1), NullStr) >>
        \o t.instructions
        \o << Instr(op_GOTO, LabelName(c.g.labelCounter + 2), NullStr, NullStr),
              Instr(op_LABEL, NullStr, NullStr, LabelName(c.g.labelCounter + 1)) >>
        \o e.instructions
        \o << Instr(op_LABEL, NullStr, NullStr, LabelName(c.g.labelCounter + 2)) >>)))

(* the labels the instructions jump to                                     *)
JumpTargets(instructions) ==
    { instructions[i].arg1 : i \in { j \in DOMAIN instructions :
                                       instructions[j].op = op_GOTO } }
    \cup
    { instructions[i].arg2 : i \in { j \in DOMAIN instructions :
                                       instructions[j].op = op_IF_FALSE } }

LabelsAt(instructions, name) ==
    { i \in DOMAIN instructions :
        instructions[i].op = op_LABEL /\ instructions[i].result = name }

(* C24: in the intermediate code generate returned, every label a GOTO or  *)
(* an IF_FALSE of a function jumps to is the result of exactly one LABEL   *)
(* of that function, and every if statement of the tree, nested or not, is *)
(* lowered in the order condition, IF_FALSE to the else label, then        *)
(* branch, GOTO the end label, else label, else branch, end label; the     *)
(* instructions of a function whose body is one if statement are the       *)
(* function's label and that lowering.                                     *)
JumpTargetsDefinedOnce ==
    pc = "ir" =>
        /\ \A k \in DOMAIN ir :
               \A target \in JumpTargets(ir[k].instructions) :
                   Cardinality(LabelsAt(ir[k].instructions, target)) = 1
        /\ \A node \in ProgramStatements(ast) :
               node.type = "IfStatement"
                   => generateStatement(FreshGenerator, node).instructions
                          = IfLowering(node)
        /\ ( /\ Len(ast.body) = 1
             /\ Len(ast.body[1].body.body) = 1
             /\ ast.body[1].body.body[1].type = "IfStatement" )
           => SubSeq(ir[1].instructions, 2, Len(ir[1].instructions))
                  = IfLowering(ast.body[1].body.body[1])

(* an if statement nested in the else branch of another, in a function     *)
(* that jumps to six or more labels                                        *)
JumpTargetsDefinedOnceWitness ==
    /\ pc = "ir"
    /\ \E node \in ProgramStatements(ast) :
           /\ node.type = "IfStatement"
           /\ ~IsNull(node.else)
           /\ node.else.type = "IfStatement"
    /\ \E k \in DOMAIN ir : Cardinality(JumpTargets(ir[k].instructions)) >= 6

(* the order of a for loop's lowering, its four labels taken first: the    *)
(* initialization lowered as the declaration or the expression it is, the  *)
(* start label, the condition, IF_FALSE to the end label, the body, the    *)
(* increment label, the increment, GOTO the start label, the end label.    *)
ForLowering(node) ==
    Let([FreshGenerator EXCEPT !.labelCounter = 4], LAMBDA g0 :
    Let(IF IsNull(node.initialization) THEN g0
        ELSE IF node.initialization.type = "DeclarationStatement"
        THEN generateStatement(g0, node.initialization)
        ELSE generateExpression(g0, node.initialization).g, LAMBDA i :
    Let(generateExpression(Onward(i), node.condition), LAMBDA c :
    Let(generateStatement(Onward(c.g), node.body), LAMBDA b :
    Let(generateExpression(Onward(b), node.increment), LAMBDA n :
        i.instructions
        \o << Instr(op_LABEL, NullStr, NullStr, LabelName(1)) >>
        \o c.g.instructions
        \o << Instr(op_IF_FALSE, c.name, LabelName(4), NullStr) >>
        \o b.instructions
        \o << Instr(op_LABEL, NullStr, NullStr, LabelName(3)) >>
        \o n.g.instructions
        \o << Instr(op_GOTO, LabelName(1), NullStr, NullStr),
              Instr(op_LABEL, NullStr, NullStr, LabelName(4)) >>)))))

(* C25: once the intermediate code is generated, every for loop of the     *)
(* tree whose initialization is present, a declaration or an expression,   *)
(* is lowered to its lowered initialization, the start label, the          *)
(* condition, IF_FALSE to the end label, the body, the increment label,    *)
(* the increment, GOTO the start label and the end label.                  *)
ForInitializationLowered ==
    pc = "ir" =>
        \A node \in ProgramStatements(ast) :
            (node.type = "ForStatement" /\ ~IsNull(node.initialization))
                => generateStatement(FreshGenerator, node).instructions
                       = ForLowering(node)

(* the instructions of the list whose result is the name                   *)
ResultsAt(instructions, name) ==
    { i \in DOMAIN instructions : instructions[i].result = name }

IsTempName(name) ==
    /\ Len(name) >= 2
    /\ name[1] = "t"
    /\ AllIn(name, 2, Len(name), Digit)

(* C26: in the intermediate code generate returned, the temporaries of a   *)
(* function are t1 to t<tempCount>, each the result of exactly one         *)
(* instruction, created in the order of their numbers, and no result names *)
(* a temporary beyond tempCount; and no two LABEL instructions of the      *)
(* whole Map carry the same label.                                         *)
TemporariesAndLabelsUnique ==
    pc = "ir" =>
        /\ \A k \in DOMAIN ir :
             Let(ir[k].instructions, LAMBDA ins :
               /\ \A n \in 1..ir[k].tempCount :
                      Cardinality(ResultsAt(ins, Temp(n))) = 1
               /\ \A n \in 1..(ir[k].tempCount - 1) :
                      \A i \in ResultsAt(ins, Temp(n)) :
                          \A j \in ResultsAt(ins, Temp(n + 1)) : i < j
               /\ \A i \in DOMAIN ins :
                      IsTempName(ins[i].result)
                          => \E n \in 1..ir[k].tempCount : ins[i].result = Temp(n))
        /\ \A k1, k2 \in DOMAIN ir :
               \A i1 \in DOMAIN ir[k1].instructions :
                   \A i2 \in DOMAIN ir[k2].instructions :
                       ( /\ ir[k1].instructions[i1].op = op_LABEL
                         /\ ir[k2].instructions[i2].op = op_LABEL
                         /\ ir[k1].instructions[i1].result
                                = ir[k2].instructions[i2].result )
                       => (k1 = k2 /\ i1 = i2)

(* two functions with temporaries and jump labels in each                  *)
TemporariesAndLabelsUniqueWitness ==
    /\ pc = "ir"
    /\ Len(ir) = 2
    /\ \A k \in DOMAIN ir :
           /\ ir[k].tempCount >= 3
           /\ Cardinality(JumpTargets(ir[k].instructions)) >= 3

(***************************************************************************)
(* Sources for the operators on a value that is no constant: a function of *)
(* one parameter whose body is up to MaxRelStmts declarations of c from    *)
(* the parameter, an operator and a numeral, and the return of c.          *)
(***************************************************************************)
MaxRelStmts == 2

RelHeader == << str_int, <<"f">>, <<"(">>, str_int, <<"p">>, <<")">>, <<"{">> >>
RelStatements ==
    { << str_int, <<"c">>, <<"=">>, <<"p">>, o, <<"2">>, <<";">> >>
      : o \in BinaryOperators }
RelSources ==
    { Join(RelHeader \o Flatten(b) \o << str_return, <<"c">>, <<";">>, <<"}">> >>)
      : b \in SeqsUpTo(RelStatements, MaxRelStmts) }

InitRel == InitWith(RelSources)
SpecRel == InitRel /\ [][Next]_vars

(* the code generator as generateFunction has set it for the k-th function *)
CodeGeneratorIn(functions, k) ==
    [NewCodeGenerator(functions) EXCEPT
        !.currentFunction = functions[k].name,
        !.localVars = allocateLocalVar(EmptyMap, functions[k].params, 1),
        !.paramCount = Len(functions[k].params)]

HasDestination(instr) == instr.op # op_LABEL /\ Truthy(instr.result)

(* some line moves a value to the place of the instruction's result        *)
StoresResult(cg, instr, lines) ==
    \E l \in DOMAIN lines :
        StartsWith(lines[l], <<" "," "," "," ","m","o","v"," ">> \o getOperandLocation(cg, instr.result)
                                 \o <<",", " ">>)

(* C27: once the assembly is generated, every instruction the code         *)
(* generator was given is translated to at least one line, and the lines   *)
(* of an instruction with a destination hold a move to the destination.    *)
EveryInstructionTranslated ==
    pc = "assembly" =>
        \A k \in DOMAIN opt :
            \A i \in DOMAIN opt[k].instructions :
                Let(generateInstruction(CodeGeneratorIn(opt, k),
                                        opt[k].instructions[i]), LAMBDA lines :
                    /\ lines # << >>
                    /\ HasDestination(opt[k].instructions[i])
                           => StoresResult(CodeGeneratorIn(opt, k),
                                           opt[k].instructions[i], lines))

(* the opcodes of the RETURN and CALL instructions, in order               *)
ReturnsAndCalls(instructions) ==
    [k \in DOMAIN SelectSeq(instructions,
                            LAMBDA instr : instr.op \in {op_RETURN, op_CALL}) |->
        SelectSeq(instructions,
                  LAMBDA instr : instr.op \in {op_RETURN, op_CALL})[k].op]

(* C28: after optimize, every function has as many RETURN and CALL         *)
(* instructions as the intermediate code it was given, in the same order   *)
(* and with the same opcodes.                                              *)
ReturnsAndCallsKept ==
    pc = "optimized" =>
        /\ Len(opt) = Len(ir)
        /\ \A k \in DOMAIN ir :
               ReturnsAndCalls(opt[k].instructions)
                   = ReturnsAndCalls(ir[k].instructions)

(***************************************************************************)
(* Sources for dead code elimination: main with up to MaxDceStmts          *)
(* statements on one variable and the return of the variable, for          *)
(* variable names with and without a leading L.                            *)
(***************************************************************************)
MaxDceStmts == 2

DceNames == { <<"L">>, <<"L","e","n">>, <<"l">>, <<"a">>, <<"_","L">> }
DceStatements(v) ==
    { << str_int, v, <<"=">>, <<"5">>, <<";">> >>,
      << v, <<"=">>, v, <<"+">>, <<"1">>, <<";">> >>,
      << str_int, <<"c">>, <<"=">>, v, <<";">> >> }
DceSources ==
    UNION { { Join(MainHeader \o Flatten(b)
                   \o << str_return, v, <<";">>, <<"}">> >>)
              : b \in SeqsUpTo(DceStatements(v), MaxDceStmts) }
            : v \in DceNames }

InitDce == InitWith(DceSources)
SpecDce == InitDce /\ [][Next]_vars

(* the '=' instructions whose destination is a name and an arg1 or an arg2 *)
(* of some instruction of all, in the order they have in instructions      *)
UsedAssignments(instructions, all) ==
    SelectSeq(instructions,
              LAMBDA instr :
                  /\ instr.op = op_ASSIGN
                  /\ Truthy(instr.result)
                  /\ \E j \in DOMAIN all :
                         \/ all[j].arg1 = instr.result
                         \/ all[j].arg2 = instr.result)

(* C29: dead code elimination, on the instructions constant folding hands  *)
(* it, keeps every '=' instruction whose destination is an arg1 or an arg2 *)
(* of an instruction of the same function.                                 *)
UsedAssignmentsKept ==
    pc = "optimized" =>
        \A k \in DOMAIN ir :
            Let(constantFolding(ir[k].instructions), LAMBDA folded :
                UsedAssignments(deadCodeElimination(folded), folded)
                    = UsedAssignments(folded, folded))

(* the keys of a Map of functions and the instruction list under each      *)
KeysAndInstructions(functions) ==
    [k \in DOMAIN functions |->
        [name |-> functions[k].name,
         instructions |-> functions[k].instructions]]

(* C30: a further generate call on the generator that returned ir leaves   *)
(* the keys and the instruction lists of ir as they were, and a further    *)
(* optimize call on the optimizer that returned opt leaves those of opt.   *)
EarlierArtifactUnchanged ==
    [][/\ GenerateAgain => KeysAndInstructions(ir') = KeysAndInstructions(ir)
       /\ OptimizeAgain => KeysAndInstructions(opt') = KeysAndInstructions(opt)]_vars

====
